---- MODULE Spec2Model ----
(***************************************************************************)
(* Model of the events crawler (src/src/scraper.py): the date parser, the  *)
(* description sanitizer and the scraping run of EventScraper.             *)
(*                                                                         *)
(* Texts are TLA+ strings, read character by character with SubSeq; the    *)
(* regular expressions of the source are matched by a small backtracking   *)
(* engine over sequences of quantified character classes.                  *)
(*                                                                         *)
(* A local variable of the source whose value is costly is bound as        *)
(*     CHOOSE r \in {<expression in v> : v \in {<value>}} : TRUE           *)
(* which is the expression with v the value, the value computed once.      *)
(***************************************************************************)
EXTENDS Integers, Sequences, FiniteSets, TLC

VARIABLES
    \* _parse_date_from_text (SpecDate)
    date_text,      \* the argument
    pidx,           \* index of the pattern the for loop is at
    date_info,      \* the dict built by the function
    dpc,            \* position in the function
    dresult,        \* the returned value
    descaped,       \* the exception that left the function, "none" if none
    dlog,           \* per loop iteration: what happened (history)
    \* _clean_description (SpecClean)
    description,    \* the argument
    cpc,            \* "start", "cleaned" (applied once), "twice" (applied again)
    cleaned1,       \* _clean_description(description)
    cleaned2,       \* _clean_description(cleaned1)
    \* scrape_events (SpecScrape)
    spc,            \* position in scrape_events and _scrape_individual_event
    session,        \* self.session: "none", "open" or "closed"
    event_links,    \* the candidate URLs
    link_i,         \* index of the URL the for loop is at
    page,           \* the document of the page being extracted
    event_data,     \* the record being built
    date_found,     \* the flag of the date zones
    parsed,         \* the zone texts handed to the date parser (history)
    page_result,    \* what _scrape_individual_event returned
    events,         \* the list scrape_events returns
    requests,       \* the URLs requested on the session, in order (history)
    slog,           \* what the logger was told of each page: <<outcome, URL>>
    clock,          \* datetime.now(), as a count of readings
    \* link discovery of scrape_events (SpecLinks)
    listing,        \* the document of the listing page
    lscan,          \* the scan in progress: "articles", "fallback" or "done"
    lpos,           \* index of the block the scan is at
    found,          \* event_links as the scans build it
    \* _scrape_individual_event called again (SpecExtract)
    served,         \* the document the site serves at the URL
    records,        \* what the calls for the URL returned, in order (history)
    \* main and extract_events on the events table (SpecStore)
    table,          \* the rows of the events table, in order of insertion
    runs,           \* per run: its list eventos, its place in it, its event_id
    created,        \* the calls of create_post: <<run, title>> (history)
    published,      \* the calls of publish_post: <<run, title>> (history)
    \* the sessions of one EventScraper instance (SpecSessions)
    self_session,   \* self.session: "None" or the session it refers to
    sessions,       \* per session: "unopened", "open" or "closed"
    tasks,          \* per call of scrape_events: its position, candidates left
    cm,             \* the `async with EventScraper()` block: "none" if not
                    \* used, else "before", "inside" or "exited"
    fetches         \* the requests issued: task, kind, session, open (history)

dateVars == <<date_text, pidx, date_info, dpc, dresult, descaped, dlog>>

cleanVars == <<description, cpc, cleaned1, cleaned2>>

scrapeVars == <<spc, session, event_links, link_i, page, event_data, date_found,
                parsed, page_result, events, requests, slog, clock>>

linkVars == <<listing, lscan, lpos, found>>

extractVars == <<served, records>>

storeVars == <<table, runs, created, published>>

sessionVars == <<self_session, sessions, tasks, cm, fetches>>

vars == <<dateVars, cleanVars, scrapeVars, linkVars, extractVars, storeVars,
          sessionVars>>

\* what the steps of the date parser leave alone
notDate == <<cleanVars, scrapeVars, linkVars, extractVars, storeVars,
             sessionVars>>

\* what the applications of the sanitizer leave alone
notClean == <<dateVars, scrapeVars, linkVars, extractVars, storeVars,
              sessionVars>>

\* what the steps of a scraping run leave alone
notScrape == <<dateVars, cleanVars, linkVars, extractVars, storeVars,
               sessionVars>>

\* what the steps of main and extract_events leave alone
notStore == <<dateVars, cleanVars, scrapeVars, linkVars, extractVars,
              sessionVars>>

\* what the steps of the sessions of an instance leave alone
notSessions == <<dateVars, cleanVars, scrapeVars, linkVars, extractVars, storeVars>>

\* what the steps of link discovery leave alone
notLinks == <<dateVars, cleanVars, scrapeVars, extractVars, storeVars,
              sessionVars>>

(***************************************************************************)
(* Characters and strings                                                  *)
(***************************************************************************)
CharsOf(s) == {SubSeq(s, i, i) : i \in 1..Len(s)}

Digits == CharsOf("0123456789")

LowerLetters == "abcdefghijklmnopqrstuvwxyzáéíóúñ"

UpperLetters == "ABCDEFGHIJKLMNOPQRSTUVWXYZÁÉÍÓÚÑ"

Letters == CharsOf(LowerLetters) \cup CharsOf(UpperLetters)

\* \s of the re module
Whitespace == {" ", "\t", "\n"}

\* \w of the re module
WordChars == Letters \cup Digits \cup {"_"}

CharAt(s, i) == SubSeq(s, i, i)

StartsWithAt(s, i, p) == i + Len(p) - 1 <= Len(s) /\ SubSeq(s, i, i + Len(p) - 1) = p

\* str.startswith
StartsWith(s, p) == StartsWithAt(s, 1, p)

\* str.endswith
EndsWith(s, p) == Len(p) <= Len(s) /\ SubSeq(s, Len(s) - Len(p) + 1, Len(s)) = p

\* the `in` operator on strings
Contains(s, p) == \E i \in 1..(Len(s) - Len(p) + 1) : StartsWithAt(s, i, p)

\* str.lower, one character
LowerChar(c) ==
    IF \E i \in 1..Len(UpperLetters) : CharAt(UpperLetters, i) = c
    THEN CharAt(LowerLetters, CHOOSE i \in 1..Len(UpperLetters) : CharAt(UpperLetters, i) = c)
    ELSE c

RECURSIVE Lower(_)
\* str.lower (the two halves of the string, lowered)
Lower(s) ==
    IF Len(s) = 0 THEN ""
    ELSE IF Len(s) = 1 THEN LowerChar(s)
    ELSE LET h == Len(s) \div 2
         IN  Lower(SubSeq(s, 1, h)) \o Lower(SubSeq(s, h + 1, Len(s)))

Min(S) == CHOOSE x \in S : \A y \in S : x <= y

Max(S) == CHOOSE x \in S : \A y \in S : x >= y

\* the positions of s that hold no whitespace
InkAt(s) == {i \in 1..Len(s) : CharAt(s, i) \notin Whitespace}

LStrip(s) == IF InkAt(s) = {} THEN "" ELSE SubSeq(s, Min(InkAt(s)), Len(s))

RStrip(s) == IF InkAt(s) = {} THEN "" ELSE SubSeq(s, 1, Max(InkAt(s)))

\* str.strip
Strip(s) == RStrip(LStrip(s))

DigitVal(c) == CHOOSE n \in 0..9 : CharAt("0123456789", n + 1) = c

RECURSIVE ToInt(_)
\* int() of a string of digits
ToInt(s) == IF s = "" THEN 0 ELSE 10 * ToInt(SubSeq(s, 1, Len(s) - 1)) + DigitVal(CharAt(s, Len(s)))

DigitChar(n) == CharAt("0123456789", n + 1)

RECURSIVE ToStr(_)
\* str() of a natural number
ToStr(n) == IF n < 10 THEN DigitChar(n) ELSE ToStr(n \div 10) \o DigitChar(n % 10)

RECURSIVE ZeroPad(_, _)
\* the zero padded rendering strftime gives %d and %m (width 2)
ZeroPad(s, w) == IF Len(s) >= w THEN s ELSE ZeroPad("0" \o s, w)

(***************************************************************************)
(* Regular expressions: a pattern is a sequence of elements, each a        *)
(* character class (\d, \s, \w or a literal character) repeated between lo *)
(* and hi times (hi = -1: no upper limit), greedy, in capture group grp    *)
(* (0: not captured).                                                      *)
(***************************************************************************)
El(c, l, h, g) == [cls |-> c, lo |-> l, hi |-> h, grp |-> g]

Lit(c) == El(c, 1, 1, 0)

InClass(c, cls) ==
    CASE cls = "\\d" -> c \in Digits
      [] cls = "\\s" -> c \in Whitespace
      [] cls = "\\w" -> c \in WordChars
      [] cls = "[\\s\\-\\(\\)]" -> c \in Whitespace \cup {"-", "(", ")"}
      [] OTHER -> c = cls

RECURSIVE Run(_, _, _, _)
\* how many characters from pos on are in the class, at most cap (-1: no cap)
Run(text, pos, cls, cap) ==
    IF cap = 0 \/ pos > Len(text) \/ ~InClass(CharAt(text, pos), cls)
    THEN 0
    ELSE 1 + Run(text, pos + 1, cls, IF cap = -1 THEN -1 ELSE cap - 1)

NoMatch == <<-1>>

RECURSIVE MatchFrom(_, _, _, _)
RECURSIVE TryCount(_, _, _, _, _)
\* the repetition counts of elements i.. of pat matched at pos, by backtracking,
\* the longest repetition first
MatchFrom(pat, i, text, pos) ==
    IF i > Len(pat) THEN <<>>
    ELSE LET mx == Run(text, pos, pat[i].cls, pat[i].hi)
         IN  IF mx < pat[i].lo THEN NoMatch ELSE TryCount(pat, i, text, pos, mx)

TryCount(pat, i, text, pos, n) ==
    LET r == MatchFrom(pat, i + 1, text, pos + n)
    IN  IF r # NoMatch THEN <<n>> \o r
        ELSE IF n > pat[i].lo THEN TryCount(pat, i, text, pos, n - 1)
        ELSE NoMatch

\* the result of a search that found nothing (re.search returning None)
NotFound == [start |-> 0, counts |-> <<>>]

RECURSIVE SearchFrom(_, _, _)
\* re.search: the match at the leftmost position where the pattern matches
SearchFrom(pat, text, s) ==
    IF s > Len(text) + 1 THEN NotFound
    ELSE LET r == MatchFrom(pat, 1, text, s)
         IN  IF r # NoMatch THEN [start |-> s, counts |-> r]
             ELSE SearchFrom(pat, text, s + 1)

Search(pat, text) == SearchFrom(pat, text, 1)

RECURSIVE SumTo(_, _)
SumTo(counts, k) == IF k = 0 THEN 0 ELSE counts[k] + SumTo(counts, k - 1)

\* match.groups()[g-1]
Group(pat, text, m, g) ==
    LET i == CHOOSE j \in 1..Len(pat) : pat[j].grp = g
        from == m.start + SumTo(m.counts, i - 1)
    IN  SubSeq(text, from, from + m.counts[i] - 1)

\* re.match(pattern, s): a match at the start of s
Matches(pat, text) == MatchFrom(pat, 1, text, 1) # NoMatch

RECURSIVE FindAllFrom(_, _, _)
\* re.findall(r'\d+', text)
FindAllFrom(pat, text, s) ==
    LET m == SearchFrom(pat, text, s)
    IN  IF m = NotFound THEN <<>>
        ELSE LET n == SumTo(m.counts, Len(m.counts))
             IN  <<SubSeq(text, m.start, m.start + n - 1)>>
                 \o FindAllFrom(pat, text, m.start + (IF n = 0 THEN 1 ELSE n))

FindAll(pat, text) == FindAllFrom(pat, text, 1)

(***************************************************************************)
(* The date parser: EventScraper._parse_date_from_text and _parse_month    *)
(***************************************************************************)
\* the patterns of date_patterns: the source text of each and its elements
pat_de ==
    [src |-> "(\\d{1,2})\\s+de\\s+(\\w+)\\s+de\\s+(\\d{4})",
     elems |-> <<El("\\d", 1, 2, 1), El("\\s", 1, -1, 0), Lit("d"), Lit("e"),
                 El("\\s", 1, -1, 0), El("\\w", 1, -1, 2), El("\\s", 1, -1, 0),
                 Lit("d"), Lit("e"), El("\\s", 1, -1, 0), El("\\d", 4, 4, 3)>>]

pat_slash ==
    [src |-> "(\\d{1,2})/(\\d{1,2})/(\\d{4})",
     elems |-> <<El("\\d", 1, 2, 1), Lit("/"), El("\\d", 1, 2, 2), Lit("/"),
                 El("\\d", 4, 4, 3)>>]

pat_dash ==
    [src |-> "(\\d{1,2})-(\\d{1,2})-(\\d{4})",
     elems |-> <<El("\\d", 1, 2, 1), Lit("-"), El("\\d", 1, 2, 2), Lit("-"),
                 El("\\d", 4, 4, 3)>>]

pat_year_spaces ==
    [src |-> "(\\d{4})\\s*(\\d{1,2})\\s*(\\d{1,2})",
     elems |-> <<El("\\d", 4, 4, 1), El("\\s", 0, -1, 0), El("\\d", 1, 2, 2),
                 El("\\s", 0, -1, 0), El("\\d", 1, 2, 3)>>]

pat_year_dash ==
    [src |-> "(\\d{4})-(\\d{1,2})-(\\d{1,2})",
     elems |-> <<El("\\d", 4, 4, 1), Lit("-"), El("\\d", 1, 2, 2), Lit("-"),
                 El("\\d", 1, 2, 3)>>]

pat_day_month_year ==
    [src |-> "(\\d{1,2})\\s+(\\w+)\\s+(\\d{4})",
     elems |-> <<El("\\d", 1, 2, 1), El("\\s", 1, -1, 0), El("\\w", 1, -1, 2),
                 El("\\s", 1, -1, 0), El("\\d", 4, 4, 3)>>]

pat_month_day_year ==
    [src |-> "(\\w+)\\s+(\\d{1,2}),?\\s+(\\d{4})",
     elems |-> <<El("\\w", 1, -1, 1), El("\\s", 1, -1, 0), El("\\d", 1, 2, 2),
                 El(",", 0, 1, 0), El("\\s", 1, -1, 0), El("\\d", 4, 4, 3)>>]

pat_dots ==
    [src |-> "(\\d{1,2})\\.(\\d{1,2})\\.(\\d{4})",
     elems |-> <<El("\\d", 1, 2, 1), Lit("."), El("\\d", 1, 2, 2), Lit("."),
                 El("\\d", 4, 4, 3)>>]

\* a list in which the month-name patterns come before the numeric ones
date_patterns_names_first ==
    <<pat_de, pat_day_month_year, pat_month_day_year, pat_slash, pat_dash,
      pat_year_spaces, pat_year_dash, pat_dots>>

\* date_patterns, in the order of the list
date_patterns ==
    <<pat_de, pat_slash, pat_dash, pat_year_spaces, pat_year_dash,
      pat_day_month_year, pat_month_day_year, pat_dots>>

\* the months dict of _parse_month
months ==
    [enero |-> 1, ene |-> 1, febrero |-> 2, feb |-> 2, marzo |-> 3, mar |-> 3,
     abril |-> 4, abr |-> 4, mayo |-> 5, may |-> 5, junio |-> 6, jun |-> 6,
     julio |-> 7, jul |-> 7, agosto |-> 8, ago |-> 8, septiembre |-> 9, sep |-> 9,
     octubre |-> 10, oct |-> 10, noviembre |-> 11, nov |-> 11,
     diciembre |-> 12, dic |-> 12]

\* _parse_month; 0 stands for None (both are false in `if month:`)
ParseMonth(month_text) ==
    LET month_lower == Strip(Lower(month_text))
    IN  IF month_lower \in DOMAIN months THEN months[month_lower] ELSE 0

IsLeap(y) == (y % 4 = 0 /\ y % 100 # 0) \/ y % 400 = 0

DaysInMonth(y, m) ==
    CASE m \in {1, 3, 5, 7, 8, 10, 12} -> 31
      [] m \in {4, 6, 9, 11} -> 30
      [] OTHER -> IF IsLeap(y) THEN 29 ELSE 28

\* stands for every integer above 2^31 - 1, the largest a C int holds
TooLarge == -1

RECURSIVE StripZeros(_)
StripZeros(s) == IF Len(s) > 1 /\ CharAt(s, 1) = "0" THEN StripZeros(SubSeq(s, 2, Len(s))) ELSE s

\* int(s) of a string of digits of any length
PyInt(s) ==
    LET t == StripZeros(s)
    IN  IF Len(t) > 10 THEN TooLarge
        ELSE IF Len(t) < 10 THEN ToInt(t)
        ELSE LET hi == ToInt(SubSeq(t, 1, 5))
                 lo == ToInt(SubSeq(t, 6, 10))
             IN  IF hi > 21474 \/ (hi = 21474 /\ lo > 83647) THEN TooLarge ELSE ToInt(t)

\* datetime(year, month, day): the date, or the exception the constructor raises
Datetime(y, m, d) ==
    IF y = TooLarge \/ m = TooLarge \/ d = TooLarge
    THEN [exc |-> "OverflowError", year |-> 0, month |-> 0, day |-> 0]
    ELSE IF y < 1 \/ y > 9999 \/ m < 1 \/ m > 12 \/ d < 1 \/ d > DaysInMonth(y, m)
    THEN [exc |-> "ValueError", year |-> 0, month |-> 0, day |-> 0]
    ELSE [exc |-> "none", year |-> y, month |-> m, day |-> d]

\* event_date.strftime('%d/%m/%Y'): the C library renders %d and %m with two
\* digits and %Y as the decimal year, which has fewer than four digits for a
\* year below 1000
Strftime(dt) ==
    ZeroPad(ToStr(dt.day), 2) \o "/" \o ZeroPad(ToStr(dt.month), 2) \o "/"
        \o ToStr(dt.year)

\* the if/elif chain without its `pattern.startswith(r'(\w+)')` branch
BranchNoMonthFirst(src) ==
    IF Contains(src, "de") THEN "day_de_month_de_year"
    ELSE IF StartsWith(src, "(\\d{4})") THEN "year_first"
    ELSE IF Contains(src, "\\s+(\\w+)\\s+") THEN "day_month_year_text"
    ELSE "day_month_year"

\* which branch of the if/elif chain interprets the groups of a pattern
Branch(src) ==
    IF Contains(src, "de") THEN "day_de_month_de_year"
    ELSE IF StartsWith(src, "(\\d{4})") THEN "year_first"
    ELSE IF StartsWith(src, "(\\w+)") THEN "month_first"
    ELSE IF Contains(src, "\\s+(\\w+)\\s+") THEN "day_month_year_text"
    ELSE "day_month_year"

IsDigits(s) == s # "" /\ \A i \in 1..Len(s) : CharAt(s, i) \in Digits

\* datetime(int(year), int(month), int(day)); int() of a string that is not a
\* number raises ValueError
DatetimeOfStrings(year, month, day) ==
    IF IsDigits(year) /\ IsDigits(month) /\ IsDigits(day)
    THEN Datetime(ToInt(year), ToInt(month), ToInt(day))
    ELSE [exc |-> "ValueError", year |-> 0, month |-> 0, day |-> 0]

\* event_date is assigned only `if month:`; reading it unassigned at the
\* date_info['event_date'] = event_date line raises UnboundLocalError
WithMonthName(year, month_text, day) ==
    LET month == ParseMonth(month_text)
    IN  IF month # 0
        THEN IF IsDigits(year) /\ IsDigits(day)
             THEN Datetime(ToInt(year), month, ToInt(day))
             ELSE [exc |-> "ValueError", year |-> 0, month |-> 0, day |-> 0]
        ELSE [exc |-> "UnboundLocalError", year |-> 0, month |-> 0, day |-> 0]

\* the body of `if match:` for one pattern: the date built from the groups,
\* or the exception raised
Interpret(p, text, m) ==
    LET g1 == Group(p.elems, text, m, 1)
        g2 == Group(p.elems, text, m, 2)
        g3 == Group(p.elems, text, m, 3)
        b  == Branch(p.src)
    IN  CASE b = "day_de_month_de_year" -> WithMonthName(g3, g2, g1)
          [] b = "year_first" -> DatetimeOfStrings(g1, g2, g3)
          [] b = "month_first" -> WithMonthName(g3, g1, g2)
          [] b = "day_month_year_text" -> WithMonthName(g3, g2, g1)
          [] OTHER -> DatetimeOfStrings(g3, g2, g1)

\* one iteration of `for pattern in date_patterns`
Iteration(p, text) ==
    CHOOSE r \in
        {IF m = NotFound
         THEN [kind |-> "nomatch", exc |-> "none", year |-> 0, month |-> 0, day |-> 0]
         ELSE [kind |-> "match"] @@ Interpret(p, text, m) :
             m \in {Search(p.elems, text)}} : TRUE

DateOf(r) == [year |-> r.year, month |-> r.month, day |-> r.day]

\* the dict filled at date_info['event_date'] = ..., date_info['formatted_date'] = ...
DateInfo(r) == [event_date |-> DateOf(r), formatted_date |-> Strftime(r)]

EmptyDict == <<>>

None == [none |-> TRUE]

NotReturned == [pending |-> TRUE]

\* the numeric fallback reading every text day first
NumericFallbackDayFirst(text) ==
    CHOOSE r \in
        {IF Len(numbers) >= 3
         THEN LET year == PyInt(numbers[3])
              IN  [kind |-> "match"]
                  @@ Datetime(IF year # TooLarge /\ year < 100 THEN year + 2000 ELSE year,
                              PyInt(numbers[2]), PyInt(numbers[1]))
         ELSE [kind |-> "nomatch", exc |-> "none", year |-> 0, month |-> 0, day |-> 0] :
             numbers \in {FindAll(<<El("\\d", 1, -1, 0)>>, text)}} : TRUE

\* the numeric fallback: re.findall(r'\d+', date_text) read positionally
NumericFallback(text) ==
    CHOOSE r \in
        {IF Len(numbers) >= 3
         THEN IF Len(numbers[1]) = 4
              THEN [kind |-> "match"]
                   @@ Datetime(PyInt(numbers[1]), PyInt(numbers[2]), PyInt(numbers[3]))
              ELSE LET year == PyInt(numbers[3])
                   IN  [kind |-> "match"]
                       @@ Datetime(IF year # TooLarge /\ year < 100 THEN year + 2000 ELSE year,
                                   PyInt(numbers[2]), PyInt(numbers[1]))
         ELSE [kind |-> "nomatch", exc |-> "none", year |-> 0, month |-> 0, day |-> 0] :
             numbers \in {FindAll(<<El("\\d", 1, -1, 0)>>, text)}} : TRUE

\* except ValueError (inside the loop and inside the fallback)
InnerCatches(exc) == exc = "ValueError"

\* an outer handler that would catch ValueError only
OuterCatchesValueErrorOnly(exc) == exc = "ValueError"

\* except Exception (around the whole body): every exception class raised here
OuterCatches(exc) == exc \in {"ValueError", "UnboundLocalError", "OverflowError"}

\* what `return date_info if date_info else None` returns
Returned(info) == IF info # EmptyDict THEN info ELSE None

RECURSIVE ParseLoop(_, _)
\* _parse_date_from_text as a function of its argument: the loop from pattern k
\* on, then the fallback; [raised |-> e] if exception e leaves the function
ParseLoop(text, k) ==
    IF k > Len(date_patterns)
    THEN CHOOSE r \in
             {IF f.kind = "nomatch" THEN None
              ELSE IF f.exc = "none" THEN DateInfo(f)
              ELSE IF InnerCatches(f.exc) \/ OuterCatches(f.exc) THEN None
              ELSE [raised |-> f.exc] :
                  f \in {NumericFallback(text)}} : TRUE
    ELSE CHOOSE r \in
             {IF o.kind = "nomatch" THEN ParseLoop(text, k + 1)
              ELSE IF o.exc = "none" THEN DateInfo(o)
              ELSE IF InnerCatches(o.exc) THEN ParseLoop(text, k + 1)
              ELSE IF OuterCatches(o.exc) THEN None
              ELSE [raised |-> o.exc] :
                  o \in {Iteration(date_patterns[k], text)}} : TRUE

ParseDateFromText(text) == ParseLoop(text, 1)

(***************************************************************************)
(* The inputs of the date parser: texts made of at most MaxPhrases of the  *)
(* phrases below, joined by one space.                                     *)
(***************************************************************************)
MaxPhrases == 2

DatePhrases == <<
    "6 de agosto de 2025", "06/08/2025", "06-08-2025", "2025-08-06",
    "6 agosto 2025", "agosto 6, 2025", "06.08.2025",
    "32 de agosto de 2025", "6 de setiembre de 2025", "32/13/2025",
    "31-02-2025", "2025-13-40", "32 agosto 2025", "AGO 29, 2024",
    "7/9/2026", "1 2 2025,", "1 2 3", "3 2 150", "hola", "99999999999", "18hs",
    "2024: 2 29" >>

RECURSIVE JoinPhrases(_)
JoinPhrases(q) ==
    IF Len(q) = 0 THEN ""
    ELSE IF Len(q) = 1 THEN DatePhrases[q[1]]
    ELSE DatePhrases[q[1]] \o " " \o JoinPhrases(Tail(q))

DateTexts ==
    {JoinPhrases(q) : q \in UNION {[1..n -> 1..Len(DatePhrases)] : n \in 0..MaxPhrases}}

(***************************************************************************)
(* _parse_date_from_text, step by step                                     *)
(***************************************************************************)
DateStart(text) ==
    /\ date_text = text
    /\ pidx = 1
    /\ date_info = EmptyDict
    /\ dpc = "loop"
    /\ dresult = NotReturned
    /\ descaped = "none"
    /\ dlog = <<>>

\* where an exception raised in the loop body or in the fallback goes
Raise(exc, caughtInner) ==
    IF caughtInner
    THEN UNCHANGED descaped
    ELSE IF OuterCatches(exc)
    THEN /\ dpc' = "return"
         /\ UNCHANGED descaped
    ELSE /\ dpc' = "done"
         /\ descaped' = exc

\* one iteration of the for loop over date_patterns
TryPattern ==
    /\ dpc = "loop"
    /\ pidx <= Len(date_patterns)
    /\ LET o == Iteration(date_patterns[pidx], date_text)
       IN  /\ dlog' = Append(dlog, IF o.kind = "nomatch" THEN "nomatch" ELSE o.exc)
           /\ IF o.kind = "nomatch"
              THEN /\ pidx' = pidx + 1
                   /\ UNCHANGED <<date_info, dpc, descaped>>
              ELSE IF o.exc = "none"
              THEN /\ date_info' = DateInfo(o)
                   /\ dpc' = "fallback"
                   /\ UNCHANGED <<pidx, descaped>>
              ELSE IF InnerCatches(o.exc)
              THEN /\ pidx' = pidx + 1
                   /\ UNCHANGED <<date_info, dpc, descaped>>
              ELSE /\ Raise(o.exc, FALSE)
                   /\ UNCHANGED <<pidx, date_info>>
    /\ UNCHANGED <<date_text, dresult>>
    /\ UNCHANGED notDate

\* the for loop ends with no pattern left
LoopEnd ==
    /\ dpc = "loop"
    /\ pidx > Len(date_patterns)
    /\ dpc' = "fallback"
    /\ UNCHANGED <<date_text, pidx, date_info, dresult, descaped, dlog>>
    /\ UNCHANGED notDate

\* `if not date_info:` and the numeric fallback under it
Fallback ==
    /\ dpc = "fallback"
    /\ IF date_info # EmptyDict
       THEN /\ dpc' = "return"
            /\ UNCHANGED <<date_info, descaped, dlog>>
       ELSE LET f == NumericFallback(date_text)
            IN  /\ dlog' = Append(dlog, "fallback")
                /\ IF f.kind = "nomatch" \/ (f.exc # "none" /\ InnerCatches(f.exc))
                   THEN /\ dpc' = "return"
                        /\ UNCHANGED <<date_info, descaped>>
                   ELSE IF f.exc = "none"
                   THEN /\ date_info' = DateInfo(f)
                        /\ dpc' = "return"
                        /\ UNCHANGED descaped
                   ELSE /\ Raise(f.exc, FALSE)
                        /\ UNCHANGED date_info
    /\ UNCHANGED <<date_text, pidx, dresult>>
    /\ UNCHANGED notDate

\* return date_info if date_info else None
Return ==
    /\ dpc = "return"
    /\ dresult' = Returned(date_info)
    /\ dpc' = "done"
    /\ UNCHANGED <<date_text, pidx, date_info, descaped, dlog>>
    /\ UNCHANGED notDate

DateNext == TryPattern \/ LoopEnd \/ Fallback \/ Return

(***************************************************************************)
(* The description sanitizer: EventScraper._clean_description              *)
(***************************************************************************)
\* an unwanted list that lacks the street address and the phone number
unwanted_phrases_short ==
    <<"Dirección:", "Teléfono:", "E-mail:", "Horario de atención:",
      "info@salto.gub.uy", "Lunes a viernes de 8:30 a 15:00 horas",
      "Sitio oficial de la", "Intendencia de Salto",
      "Los sitios oficiales tienen dominio salto.gub.uy",
      "Los sitios salto.gub.uy son seguros",
      "Un sitio web con extensión salto.gub.uy",
      "Comparta información confidencial sólo en sitios web oficiales">>

unwanted_phrases ==
    <<"Dirección:", "Teléfono:", "E-mail:", "Horario de atención:",
      "Juan Carlos Gómez 32", "(+598) 473 2 98 98", "info@salto.gub.uy",
      "Lunes a viernes de 8:30 a 15:00 horas",
      "Sitio oficial de la", "Intendencia de Salto",
      "Los sitios oficiales tienen dominio salto.gub.uy",
      "Los sitios salto.gub.uy son seguros",
      "Un sitio web con extensión salto.gub.uy",
      "Comparta información confidencial sólo en sitios web oficiales">>

\* the fixed sentence returned for text that is too short
Placeholder == "¡No te pierdas este evento en Salto!"

\* s.find(p) + 1: the first position where p occurs in s, 0 if nowhere
IndexOf(s, p) ==
    LET at == {i \in 1..(Len(s) - Len(p) + 1) : StartsWithAt(s, i, p)}
    IN  IF at = {} THEN 0 ELSE Min(at)

RECURSIVE Replace(_, _)
\* s.replace(old, ''): every occurrence of old, from the left, removed
Replace(s, old) ==
    LET i == IndexOf(s, old)
    IN  IF i = 0 THEN s
        ELSE SubSeq(s, 1, i - 1) \o Replace(SubSeq(s, i + Len(old), Len(s)), old)

RECURSIVE RemovePhrases(_, _)
\* for phrase in unwanted_phrases: cleaned = cleaned.replace(phrase, '').strip()
RemovePhrases(s, k) ==
    IF k > Len(unwanted_phrases) THEN s
    ELSE CHOOSE r \in {RemovePhrases(cleaned, k + 1) :
                           cleaned \in {Strip(Replace(s, unwanted_phrases[k]))}} : TRUE

RECURSIVE CollapseWhitespace(_)
\* re.sub(r'\s+', ' ', s)
CollapseWhitespace(s) ==
    LET ws == {i \in 1..Len(s) : CharAt(s, i) \in Whitespace}
    IN  IF ws = {} THEN s
        ELSE SubSeq(s, 1, Min(ws) - 1) \o " "
                 \o CollapseWhitespace(LStrip(SubSeq(s, Min(ws), Len(s))))

RECURSIVE Split(_, _)
\* s.split(sep)
Split(s, sep) ==
    LET i == IndexOf(s, sep)
    IN  IF i = 0 THEN <<s>>
        ELSE <<SubSeq(s, 1, i - 1)>> \o Split(SubSeq(s, i + Len(sep), Len(s)), sep)

RECURSIVE Join(_, _)
\* sep.join(lines)
Join(lines, sep) ==
    IF Len(lines) = 0 THEN ""
    ELSE IF Len(lines) = 1 THEN lines[1]
    ELSE lines[1] \o sep \o Join(Tail(lines), sep)

\* the pattern of re.match(r'^\d+[\s\-\(\)]*\d+', line)
pat_phone == <<El("\\d", 1, -1, 0), El("[\\s\\-\\(\\)]", 0, -1, 0), El("\\d", 1, -1, 0)>>

\* the condition under which a stripped line is kept
KeepLine(line) ==
    /\ line # ""
    /\ Len(line) > 15
    /\ ~StartsWith(line, "4732")
    /\ ~StartsWith(line, "473")
    /\ ~Contains(line, "@")
    /\ ~Contains(Lower(line), "gub.uy")
    /\ ~Contains(Lower(line), "juan carlos gómez")
    /\ ~Matches(pat_phone, line)

RECURSIVE FilterLines(_)
\* filtered_lines: the stripped lines that are kept, in order
FilterLines(lines) ==
    IF Len(lines) = 0 THEN <<>>
    ELSE LET line == Strip(Head(lines))
         IN  (IF KeepLine(line) THEN <<line>> ELSE <<>>) \o FilterLines(Tail(lines))

\* `if filtered_lines:` ... the sentences joined, with a final period
Rejoin(cleaned, filtered_lines) ==
    IF Len(filtered_lines) > 0
    THEN LET joined == Join(filtered_lines, ". ")
         IN  IF EndsWith(joined, ".") THEN joined ELSE joined \o "."
    ELSE cleaned

\* _clean_description
CleanDescription(d) ==
    IF d = "" THEN ""
    ELSE LET removed  == RemovePhrases(d, 1)
             spaced   == Strip(CollapseWhitespace(removed))
             filtered == FilterLines(Split(spaced, "."))
             rejoined == Rejoin(spaced, filtered)
             final    == Strip(CollapseWhitespace(rejoined))
         IN  IF Len(final) < 30 THEN Placeholder ELSE final

(***************************************************************************)
(* The inputs of the sanitizer: texts of at most MaxPieces pieces, joined  *)
(* by one space, and arrangements of at most MaxContact of the address,    *)
(* phone and e-mail phrases, separated by whitespace.                      *)
(***************************************************************************)
MaxPieces == 2

MaxContact == 4

DescPieces == <<
    "Gran festival de música en la plaza.",
    "Entrada libre y gratuita para todo público",
    "Hola.", "¡Vení!",
    "Dirección: Juan Carlos Gómez 32",
    "Teléfono: (+598) 473 2 98 98.",
    "Consultas a cultura@salto.gub.uy.",
    "473 2 98 98 es el número de contacto.",
    "DirDirección:ección: plaza Artigas",
    "Sitio oficial de la Intendencia de Salto",
    "a. b. c. d. e. f. g. h. i. j. k. l.",
    Placeholder >>

ContactPhrases ==
    <<"Dirección:", "Juan Carlos Gómez 32", "Teléfono:", "(+598) 473 2 98 98",
      "E-mail:", "info@salto.gub.uy">>

Separators == {" ", "\n", "  "}

RECURSIVE JoinOf(_, _, _)
JoinOf(pieces, q, sep) ==
    IF Len(q) = 0 THEN ""
    ELSE IF Len(q) = 1 THEN pieces[q[1]]
    ELSE pieces[q[1]] \o sep \o JoinOf(pieces, Tail(q), sep)

IsInjective(q) == \A i, j \in DOMAIN q : q[i] = q[j] => i = j

PieceTexts ==
    {JoinOf(DescPieces, q, " ") :
        q \in UNION {[1..n -> 1..Len(DescPieces)] : n \in 0..MaxPieces}}

ContactTexts ==
    {JoinOf(ContactPhrases, q, sep) :
        q \in {r \in UNION {[1..n -> 1..Len(ContactPhrases)] : n \in 1..MaxContact} :
                  IsInjective(r)},
        sep \in Separators}

Descriptions == PieceTexts \cup ContactTexts

(***************************************************************************)
(* _clean_description applied to a text, and applied again to its result   *)
(***************************************************************************)
CleanStart(d) ==
    /\ description = d
    /\ cpc = "start"
    /\ cleaned1 = ""
    /\ cleaned2 = ""

\* cleaned1 = _clean_description(description)
Clean ==
    /\ cpc = "start"
    /\ cleaned1' = CleanDescription(description)
    /\ cpc' = "cleaned"
    /\ UNCHANGED <<description, cleaned2>>
    /\ UNCHANGED notClean

\* cleaned2 = _clean_description(cleaned1)
CleanAgain ==
    /\ cpc = "cleaned"
    /\ cleaned2' = CleanDescription(cleaned1)
    /\ cpc' = "twice"
    /\ UNCHANGED <<description, cleaned1>>
    /\ UNCHANGED notClean

CleanNext == Clean \/ CleanAgain

(***************************************************************************)
(* Documents.  A response is what session.get gives for a URL: the request *)
(* raised, or it has a status and a document.  A listing document is the   *)
(* sequence of its article-like blocks and hyperlinks, in document order;  *)
(* an event page is the sequence of its elements, in document order, each  *)
(* with the CSS selectors of the source that match it, its text and, for   *)
(* an image, its src and data-src attributes.                              *)
(***************************************************************************)
base_url == "https://www.salto.gub.uy"

events_url == "https://www.salto.gub.uy/eventos"

\* urljoin(base_url, href) for an absolute URL, a rooted path, a relative path
Urljoin(base, href) ==
    IF href = "" THEN base
    ELSE IF StartsWith(href, "http://") \/ StartsWith(href, "https://") THEN href
    ELSE IF StartsWith(href, "/") THEN base \o href
    ELSE base \o "/" \o href

InSeq(x, q) == \E i \in 1..Len(q) : q[i] = x

\* a block of the listing: an <article>, a <div> whose class holds "evento",
\* or a hyperlink outside them.  has_href: the block holds an <a href> (for
\* a hyperlink: always); href: the href of the first one
Block(tag, has_href, href) == [tag |-> tag, has_href |-> has_href, href |-> href]

\* soup.find_all('article') or soup.find_all('div', class_=... 'evento' ...)
Articles(blocks) ==
    LET arts == SelectSeq(blocks, LAMBDA b : b.tag = "article")
    IN  IF Len(arts) > 0 THEN arts
        ELSE SelectSeq(blocks, LAMBDA b : b.tag = "div.evento")

RECURSIVE ArticleLinksNoDedup(_, _)
\* the loop over the articles without `href not in event_links`
ArticleLinksNoDedup(articles, links) ==
    IF Len(articles) = 0 THEN links
    ELSE LET a    == Head(articles)
             href == IF a.has_href /\ a.href # "" /\ ~StartsWith(a.href, "http")
                     THEN Urljoin(base_url, a.href)
                     ELSE a.href
         IN  ArticleLinksNoDedup(Tail(articles),
                 IF a.has_href /\ href # ""
                 THEN Append(links, href)
                 ELSE links)

RECURSIVE ArticleLinks(_, _)
\* `for article in articles:` the first link of each article, made absolute
\* unless it starts with "http", appended unless already in the list
ArticleLinks(articles, links) ==
    IF Len(articles) = 0 THEN links
    ELSE LET a    == Head(articles)
             href == IF a.has_href /\ a.href # "" /\ ~StartsWith(a.href, "http")
                     THEN Urljoin(base_url, a.href)
                     ELSE a.href
         IN  ArticleLinks(Tail(articles),
                 IF a.has_href /\ href # "" /\ ~InSeq(href, links)
                 THEN Append(links, href)
                 ELSE links)

RECURSIVE AllLinksKeepListing(_, _)
\* the scan of every hyperlink without `full_url != self.events_url`
AllLinksKeepListing(blocks, links) ==
    IF Len(blocks) = 0 THEN links
    ELSE LET b        == Head(blocks)
             full_url == Urljoin(base_url, b.href)
         IN  AllLinksKeepListing(Tail(blocks),
                 IF /\ b.has_href
                    /\ b.href # ""
                    /\ Contains(Lower(b.href), "evento") \/ Contains(b.href, "/node/")
                    /\ ~InSeq(full_url, links)
                 THEN Append(links, full_url)
                 ELSE links)

RECURSIVE AllLinks(_, _)
\* `for link in all_links:` the scan of every hyperlink of the page
AllLinks(blocks, links) ==
    IF Len(blocks) = 0 THEN links
    ELSE LET b        == Head(blocks)
             full_url == Urljoin(base_url, b.href)
         IN  AllLinks(Tail(blocks),
                 IF /\ b.has_href
                    /\ b.href # ""
                    /\ Contains(Lower(b.href), "evento") \/ Contains(b.href, "/node/")
                    /\ ~InSeq(full_url, links)
                    /\ full_url # events_url
                 THEN Append(links, full_url)
                 ELSE links)

\* the candidate list scrape_events builds from the listing document
DiscoverLinks(blocks) ==
    LET fromArticles == ArticleLinks(Articles(blocks), <<>>)
    IN  IF Len(fromArticles) = 0 THEN AllLinks(blocks, <<>>) ELSE fromArticles

(***************************************************************************)
(* Link discovery, block by block: the two for loops of scrape_events      *)
(***************************************************************************)
MaxLinkBlocks == 3

LinkHrefs ==
    {"/node/1", "/evento/fiesta", "https://www.salto.gub.uy/evento/fiesta",
     "https://www.salto.gub.uy/eventos"}

LinkBlocks ==
    {Block("article", TRUE, h) : h \in LinkHrefs}
        \cup {Block("a", TRUE, h) : h \in LinkHrefs \cup {"/contacto", "/Evento/feria"}}
        \cup {Block("article", FALSE, ""), Block("div.evento", TRUE, "/node/1")}

LinkListings == UNION {[1..n -> LinkBlocks] : n \in 0..MaxLinkBlocks}

LinkStart(doc) ==
    /\ listing = doc
    /\ lscan = "articles"
    /\ lpos = 1
    /\ found = <<>>

\* one iteration of `for article in articles:`
ArticleStep ==
    /\ lscan = "articles"
    /\ lpos <= Len(Articles(listing))
    /\ found' = ArticleLinks(<<Articles(listing)[lpos]>>, found)
    /\ lpos' = lpos + 1
    /\ UNCHANGED <<listing, lscan>>
    /\ UNCHANGED notLinks

\* `if not event_links:` after the articles
ArticlesEnd ==
    /\ lscan = "articles"
    /\ lpos > Len(Articles(listing))
    /\ lscan' = IF Len(found) = 0 THEN "fallback" ELSE "done"
    /\ lpos' = 1
    /\ UNCHANGED <<listing, found>>
    /\ UNCHANGED notLinks

\* one iteration of `for link in all_links:`
LinkStep ==
    /\ lscan = "fallback"
    /\ lpos <= Len(listing)
    /\ found' = AllLinks(<<listing[lpos]>>, found)
    /\ lpos' = lpos + 1
    /\ UNCHANGED <<listing, lscan>>
    /\ UNCHANGED notLinks

\* the fallback scan is over
LinksEnd ==
    /\ lscan = "fallback"
    /\ lpos > Len(listing)
    /\ lscan' = "done"
    /\ UNCHANGED <<listing, lpos, found>>
    /\ UNCHANGED notLinks

LinksNext ==
    \/ ArticleStep
    \/ ArticlesEnd
    \/ LinkStep
    \/ LinksEnd

\* an element of an event page
Elem(sels, text) == [sels |-> sels, text |-> text, src |-> "", data_src |-> ""]

\* an <img> under .field
Img(src, data_src) ==
    [sels |-> {".field > img"}, text |-> "", src |-> src, data_src |-> data_src]

\* soup.select(selector)
Select(elems, selector) == SelectSeq(elems, LAMBDA e : selector \in e.sels)

\* soup.select_one(selector) is not None
Found(elems, selector) == \E i \in 1..Len(elems) : selector \in elems[i].sels

\* soup.select_one(selector), when it is not None
SelectOne(elems, selector) == Head(Select(elems, selector))

RECURSIVE FirstFound(_, _, _)
\* select_one(s[k]) or select_one(s[k+1]) or ...: an element is true whatever
\* its text; the index of the first selector that finds one, 0 if none does
FirstFound(elems, selectors, k) ==
    IF k > Len(selectors) THEN 0
    ELSE IF Found(elems, selectors[k]) THEN k
    ELSE FirstFound(elems, selectors, k + 1)

\* elem.get_text(strip=True)
GetTextStrip(e) == Strip(e.text)

RECURSIVE GetText(_)
\* soup.get_text(): the texts of the document, one after the other
GetText(elems) ==
    IF Len(elems) = 0 THEN "" ELSE Head(elems).text \o GetText(Tail(elems))

(***************************************************************************)
(* The fields of a record: EventScraper._scrape_individual_event           *)
(***************************************************************************)
title_selectors ==
    <<".page-content > .title span", ".page-content .title span", ".title span",
      "h1", ".page-title">>

alternative_selectors ==
    <<"header div", ".date", ".fecha", ".event-date", ".field-name-field-date",
      ".field-type-datetime", "time", ".datetime">>

description_selectors ==
    <<".field > p > span", ".field p span", ".field p", ".content p">>

\* the selector whose element gives the title, 0 if no selector finds one
TitleSelector(elems) ==
    IF Found(elems, title_selectors[1]) THEN 1
    ELSE FirstFound(elems, title_selectors, 2)

\* d[key] = value
Put(d, key, value) == (key :> value) @@ d

\* event_data.update(date_info), keeping event_date only
UpdateEventDateOnly(d, other) == Put(d, "event_date", other.event_date)

\* d.update(other)
Update(d, other) == other @@ d

Has(d, key) == key \in DOMAIN d

RECURSIVE AlternativeZones(_, _)
\* the texts of the elements the alternative selectors find, in list order
AlternativeZones(elems, k) ==
    IF k > Len(alternative_selectors) THEN <<>>
    ELSE (IF Found(elems, alternative_selectors[k])
          THEN <<GetTextStrip(SelectOne(elems, alternative_selectors[k]))>>
          ELSE <<>>)
         \o AlternativeZones(elems, k + 1)

\* the date zones with the header consulted before the body block
DateZonesHeaderFirst(elems) ==
    (IF Found(elems, "header > div")
     THEN <<GetTextStrip(SelectOne(elems, "header > div"))>> ELSE <<>>)
    \o (IF Found(elems, ".field--name-body")
        THEN <<GetTextStrip(SelectOne(elems, ".field--name-body"))>> ELSE <<>>)
    \o AlternativeZones(elems, 1)
    \o <<GetText(elems)>>

\* the texts the date is looked for in, in the order they are consulted: the
\* first body block, header > div, the alternative selectors, the whole page
DateZones(elems) ==
    (IF Found(elems, ".field--name-body")
     THEN <<GetTextStrip(SelectOne(elems, ".field--name-body"))>> ELSE <<>>)
    \o (IF Found(elems, "header > div")
        THEN <<GetTextStrip(SelectOne(elems, "header > div"))>> ELSE <<>>)
    \o AlternativeZones(elems, 1)
    \o <<GetText(elems)>>

RECURSIVE FindDate(_, _)
\* each zone is parsed only `if not date_found`: the number of the first zone
\* that parses and its date_info; zone 0 and None if no zone parses
FindDate(zones, k) ==
    IF k > Len(zones) THEN [zone |-> 0, date_info |-> None]
    ELSE CHOOSE r \in
             {IF info # None THEN [zone |-> k, date_info |-> info]
              ELSE FindDate(zones, k + 1) :
                  info \in {ParseDateFromText(zones[k])}} : TRUE

\* img_elem.get('src') or img_elem.get('data-src')
ImgSrc(e) == IF e.src # "" THEN e.src ELSE e.data_src

RECURSIVE KeepTitleChars(_)
\* re.sub(r'[^\w\s-]', '', event_title)
KeepTitleChars(s) ==
    LET bad == {i \in 1..Len(s) : CharAt(s, i) \notin WordChars \cup Whitespace \cup {"-"}}
    IN  IF bad = {} THEN s
        ELSE SubSeq(s, 1, Min(bad) - 1)
                 \o KeepTitleChars(SubSeq(s, Min(bad) + 1, Len(s)))

RECURSIVE Hyphenate(_)
\* re.sub(r'[-\s]+', '-', s)
Hyphenate(s) ==
    LET seps == {i \in 1..Len(s) : CharAt(s, i) \in Whitespace \cup {"-"}}
        rest == {i \in 1..Len(s) : i > Min(seps) /\ i \notin seps}
    IN  IF seps = {} THEN s
        ELSE SubSeq(s, 1, Min(seps) - 1) \o "-"
                 \o (IF rest = {} THEN ""
                     ELSE Hyphenate(SubSeq(s, Min(rest), Len(s))))

\* urlparse(image_url).path, for a URL scheme://host/path
UrlPath(url) ==
    LET afterScheme == SubSeq(url, IndexOf(url, "://") + 3, Len(url))
        slash       == IndexOf(afterScheme, "/")
    IN  IF slash = 0 THEN "" ELSE SubSeq(afterScheme, slash, Len(afterScheme))

\* the file name _download_image writes the image to
Filename(image_url, event_title) ==
    LET safe_title == Hyphenate(KeepTitleChars(event_title))
        path       == UrlPath(image_url)
        pieces     == Split(path, ".")
        extension  == IF Contains(path, ".") THEN pieces[Len(pieces)] ELSE "jpg"
    IN  "images/" \o SubSeq(safe_title, 1, Min({50, Len(safe_title)}))
            \o "." \o extension

\* the description with the cascade consulted before the body block
DescriptionOfCascadeFirst(elems) ==
    LET k == FirstFound(elems, description_selectors, 1)
    IN  IF k # 0
        THEN CleanDescription(GetTextStrip(SelectOne(elems, description_selectors[k])))
        ELSE IF Found(elems, ".field--name-body")
        THEN CleanDescription(GetTextStrip(SelectOne(elems, ".field--name-body")))
        ELSE Placeholder

\* the description of the page: the sanitized text of the first body block,
\* else of the first element the cascade finds, else the placeholder
DescriptionOf(elems) ==
    IF Found(elems, ".field--name-body")
    THEN CleanDescription(GetTextStrip(SelectOne(elems, ".field--name-body")))
    ELSE LET k == FirstFound(elems, description_selectors, 1)
         IN  IF k # 0
             THEN CleanDescription(GetTextStrip(SelectOne(elems, description_selectors[k])))
             ELSE Placeholder

\* `if event_data:` with every value taken as true
TruthyAlways(r) == TRUE

\* `if event_data:` None and the empty dict are false
Truthy(r) == r # None /\ r # EmptyDict

(***************************************************************************)
(* The responses of the site.  A listing is a sequence of at most          *)
(* MaxBlocks blocks; an event page is one of PageDocs.                     *)
(***************************************************************************)
MaxBlocks == 2

Hrefs == {"/node/1", "/evento/fiesta", "https://www.salto.gub.uy/eventos"}

ListingBlocks ==
    {Block("article", TRUE, h) : h \in Hrefs}
        \cup {Block("a", TRUE, h) : h \in Hrefs}
        \cup {Block("article", FALSE, ""), Block("div.evento", TRUE, "/node/1")}

Listings == UNION {[1..n -> ListingBlocks] : n \in 0..MaxBlocks}

\* what a request or the reading of its response can raise: a transport
\* error, the timeout of the session, a body that cannot be decoded
Exceptions == {"ClientError", "TimeoutError", "UnicodeDecodeError"}

\* `except Exception` with the exceptions of a transport only
CaughtTransportOnly(exc) == exc = "ClientError"

\* `except Exception`: the three are subclasses of Exception
Caught(exc) == exc \in {"ClientError", "TimeoutError", "UnicodeDecodeError"}

\* session.get or response.text() raised
Raised == [raised |-> TRUE, status |-> 0, doc |-> <<>>]

Response(status, doc) == [raised |-> FALSE, status |-> status, doc |-> doc]

ListingResponses ==
    {Raised, Response(500, <<>>)} \cup {Response(200, l) : l \in Listings}

StrictTitle ==
    {".page-content > .title span", ".page-content .title span", ".title span"}

PageDocs == <<
    \* a complete page: title, header date, two body blocks, image
    << Elem(StrictTitle, "Fiesta de la Primavera"),
       Elem({"header > div", "header div"}, "Publicado el 01/02/2024"),
       Elem({".field--name-body"},
            " Gran festival de música en la plaza el 6 de agosto de 2025. "),
       Img("/sites/default/files/fiesta.jpg", ""),
       Elem({".field--name-body"},
            "Dirección: Juan Carlos Gómez 32 Teléfono: (+598) 473 2 98 98") >>,
    \* no element for any selector of the title chain
    << Elem({".field--name-body"},
            "Entrada libre y gratuita para todo público, 06/08/2025") >>,
    \* the first selector finds an element without text, h1 has the title
    << Elem(StrictTitle, "  "),
       Elem({"h1"}, "Carnaval 2026"),
       Elem({".field--name-body"}, "6 de setiembre de 2025"),
       Elem({"header > div", "header div"}, "7/9/2026") >>,
    \* title in h1, date under .fecha, description under .field p
    << Elem({"h1"}, "Feria del Libro"),
       Elem({".fecha"}, "agosto 6, 2025"),
       Elem({".field p", ".content p"}, "Entrada libre y gratuita para todo público"),
       Img("", "files/feria.png") >>,
    \* no date and no description element
    << Elem({".page-title"}, "Muestra"),
       Elem({}, " sin fecha") >>,
    \* three numbers in the text of the page, no date zone
    << Elem({"h1"}, "Teatro"),
       Elem({}, " sala 3 piso 2, 150 localidades") >>,
    \* a body block without text, before a paragraph with text
    << Elem(StrictTitle, "Cine"),
       Elem({".field--name-body"}, "  "),
       Elem({".field p", ".content p"},
            "Ciclo de cine al aire libre en la costanera.") >>,
    \* two body blocks, a date in the second one only
    << Elem({"h1"}, "Expo"),
       Elem({".field--name-body"}, "Muestra de arte en el museo"),
       Elem({".field--name-body"}, "Horario: desde el 01/02/2024") >> >>

PageResponses ==
    {Raised, Response(404, <<>>)}
        \cup {Response(200, PageDocs[d]) : d \in 1..Len(PageDocs)}

(***************************************************************************)
(* One run of scrape_events                                                *)
(***************************************************************************)
ScrapeStart ==
    /\ spc = "idle"
    /\ session = "none"
    /\ event_links = <<>>
    /\ link_i = 0
    /\ page = <<>>
    /\ event_data = EmptyDict
    /\ date_found = FALSE
    /\ parsed = <<>>
    /\ page_result = None
    /\ events = <<>>
    /\ requests = <<>>
    /\ slog = <<>>
    /\ clock = 0

\* the URL the for loop is at
event_url == event_links[link_i]

\* scrape_events is called: events = [], the session is opened
ScrapeEvents ==
    /\ spc = "idle"
    /\ events' = <<>>
    /\ session' = "open"
    /\ spc' = "listing"
    /\ UNCHANGED <<event_links, link_i, page, event_data, date_found, parsed,
                   page_result, requests, slog, clock>>
    /\ UNCHANGED notScrape

\* the listing is requested; on an exception or a status other than 200 the
\* run returns events, else the candidate list is built
FetchListing ==
    /\ spc = "listing"
    /\ requests' = Append(requests, events_url)
    /\ \E r \in ListingResponses :
           IF r.raised
           THEN \E exc \in Exceptions :
                    /\ slog' = IF Caught(exc)
                               THEN Append(slog, <<"listing_raised", events_url>>)
                               ELSE slog
                    /\ session' = "closed"
                    /\ spc' = IF Caught(exc) THEN "returned" ELSE "escaped"
                    /\ UNCHANGED <<event_links, link_i>>
           ELSE IF r.status # 200
           THEN /\ slog' = Append(slog, <<"listing_status", events_url>>)
                /\ session' = "closed"
                /\ spc' = "returned"
                /\ UNCHANGED <<event_links, link_i>>
           ELSE /\ event_links' = DiscoverLinks(r.doc)
                /\ link_i' = 1
                /\ spc' = "loop"
                /\ UNCHANGED <<session, slog>>
    /\ UNCHANGED <<page, event_data, date_found, parsed, page_result, events, clock>>
    /\ UNCHANGED notScrape

\* _scrape_individual_event requests the page; on an exception of the
\* request or of the reading of the document, or a status other than 200, it
\* returns None
FetchPage ==
    /\ spc = "loop"
    /\ link_i <= Len(event_links)
    /\ requests' = Append(requests, event_url)
    /\ \E r \in PageResponses :
           IF r.raised
           THEN \E exc \in Exceptions :
                    /\ slog' = IF Caught(exc) THEN Append(slog, <<"raised", event_url>>)
                               ELSE slog
                    /\ page_result' = None
                    /\ spc' = IF Caught(exc) THEN "page_done" ELSE "escaped"
                    /\ session' = IF Caught(exc) THEN session ELSE "closed"
                    /\ UNCHANGED page
           ELSE IF r.status # 200
           THEN /\ slog' = Append(slog, <<"status", event_url>>)
                /\ page_result' = None
                /\ spc' = "page_done"
                /\ UNCHANGED <<page, session>>
           ELSE /\ page' = r.doc
                /\ spc' = "title"
                /\ UNCHANGED <<slog, page_result, session>>
    /\ event_data' = EmptyDict
    /\ date_found' = FALSE
    /\ parsed' = <<>>
    /\ UNCHANGED <<event_links, link_i, events, clock>>
    /\ UNCHANGED notScrape

\* the title chain; without a title element the page gives None
ExtractTitle ==
    /\ spc = "title"
    /\ LET k == TitleSelector(page)
       IN  IF k # 0
           THEN /\ event_data' = Put(event_data, "title",
                                     GetTextStrip(SelectOne(page, title_selectors[k])))
                /\ spc' = "date"
                /\ UNCHANGED <<slog, page_result>>
           ELSE /\ slog' = Append(slog, <<"no_title", event_url>>)
                /\ page_result' = None
                /\ spc' = "page_done"
                /\ UNCHANGED event_data
    /\ UNCHANGED <<session, event_links, link_i, page, date_found, parsed, events,
                   requests, clock>>
    /\ UNCHANGED notScrape

\* the date zones with the time of scraping as the date of a page without one
ExtractDateDefaultNow ==
    /\ spc = "date"
    /\ \E zones \in {DateZones(page)} :
           \E f \in {FindDate(zones, 1)} :
               /\ date_found' = (f.zone # 0)
               /\ parsed' = IF f.zone = 0 THEN zones ELSE SubSeq(zones, 1, f.zone)
               /\ event_data' = IF f.zone # 0 THEN Update(event_data, f.date_info)
                                ELSE Put(event_data, "event_date", clock)
    /\ spc' = "image"
    /\ UNCHANGED <<session, event_links, link_i, page, page_result, events,
                   requests, slog, clock>>
    /\ UNCHANGED notScrape

\* the date zones, in order, until one parses
ExtractDate ==
    /\ spc = "date"
    /\ \E zones \in {DateZones(page)} :
           \E f \in {FindDate(zones, 1)} :
               /\ date_found' = (f.zone # 0)
               /\ parsed' = IF f.zone = 0 THEN zones ELSE SubSeq(zones, 1, f.zone)
               /\ event_data' = IF f.zone # 0 THEN Update(event_data, f.date_info)
                                ELSE event_data
    /\ spc' = "image"
    /\ UNCHANGED <<session, event_links, link_i, page, page_result, events,
                   requests, slog, clock>>
    /\ UNCHANGED notScrape

\* the image: image_url is set, the image is requested, image_path is set if
\* the download gave a file
ExtractImage ==
    /\ spc = "image"
    /\ IF Found(page, ".field > img") /\ ImgSrc(SelectOne(page, ".field > img")) # ""
       THEN LET image_url == Urljoin(base_url, ImgSrc(SelectOne(page, ".field > img")))
            IN  /\ requests' = Append(requests, image_url)
                /\ \E outcome \in {"ok", "status", "raised"} :
                       event_data' =
                           IF outcome = "ok"
                           THEN Put(Put(event_data, "image_url", image_url),
                                    "image_path", Filename(image_url, event_data.title))
                           ELSE Put(event_data, "image_url", image_url)
       ELSE UNCHANGED <<requests, event_data>>
    /\ spc' = "description"
    /\ UNCHANGED <<session, event_links, link_i, page, date_found, parsed,
                   page_result, events, slog, clock>>
    /\ UNCHANGED notScrape

\* description, link and scraped_at; the record is returned
ExtractDescription ==
    /\ spc = "description"
    /\ clock' = clock + 1
    /\ event_data' = Put(Put(Put(event_data, "description", DescriptionOf(page)),
                             "link", event_url),
                         "scraped_at", clock')
    /\ page_result' = event_data'
    /\ slog' = Append(slog, <<"extracted", event_url>>)
    /\ spc' = "page_done"
    /\ UNCHANGED <<session, event_links, link_i, page, date_found, parsed, events,
                   requests>>
    /\ UNCHANGED notScrape

\* the loop with each record put before the ones already collected
CollectEventPrepend ==
    /\ spc = "page_done"
    /\ events' = IF Truthy(page_result) THEN <<page_result>> \o events ELSE events
    /\ link_i' = link_i + 1
    /\ spc' = "loop"
    /\ UNCHANGED <<session, event_links, page, event_data, date_found, parsed,
                   page_result, requests, slog, clock>>
    /\ UNCHANGED notScrape

\* the loop with a page that gave no record tried again
CollectEventRetry ==
    /\ spc = "page_done"
    /\ events' = IF Truthy(page_result) THEN Append(events, page_result) ELSE events
    /\ link_i' = IF Truthy(page_result) THEN link_i + 1 ELSE link_i
    /\ spc' = "loop"
    /\ UNCHANGED <<session, event_links, page, event_data, date_found, parsed,
                   page_result, requests, slog, clock>>
    /\ UNCHANGED notScrape

\* `if event_data: events.append(event_data)`, then the next URL
CollectEvent ==
    /\ spc = "page_done"
    /\ events' = IF Truthy(page_result) THEN Append(events, page_result) ELSE events
    /\ link_i' = link_i + 1
    /\ spc' = "loop"
    /\ UNCHANGED <<session, event_links, page, event_data, date_found, parsed,
                   page_result, requests, slog, clock>>
    /\ UNCHANGED notScrape

\* the end of the loop with the session left open
ReturnEventsLeaveOpen ==
    /\ spc = "loop"
    /\ link_i > Len(event_links)
    /\ spc' = "returned"
    /\ UNCHANGED <<session, event_links, link_i, page, event_data, date_found, parsed,
                   page_result, events, requests, slog, clock>>
    /\ UNCHANGED notScrape

\* the for loop is over: the session is closed and events is returned
ReturnEvents ==
    /\ spc = "loop"
    /\ link_i > Len(event_links)
    /\ session' = "closed"
    /\ spc' = "returned"
    /\ UNCHANGED <<event_links, link_i, page, event_data, date_found, parsed,
                   page_result, events, requests, slog, clock>>
    /\ UNCHANGED notScrape

ScrapeNext ==
    \/ ScrapeEvents
    \/ FetchListing
    \/ FetchPage
    \/ ExtractTitle
    \/ ExtractDate
    \/ ExtractImage
    \/ ExtractDescription
    \/ CollectEvent
    \/ ReturnEvents

(***************************************************************************)
(* _scrape_individual_event called twice for one URL, the site serving the *)
(* same document both times                                                *)
(***************************************************************************)
ExtractStart(doc) ==
    /\ served = doc
    /\ records = <<>>

\* the call requests the URL and the served document arrives
FetchServed ==
    /\ Len(records) < 2
    /\ FetchPage
    /\ page' = served
    /\ spc' = "title"

\* the call returns: the caller has its result
Deliver ==
    /\ spc = "page_done"
    /\ records' = Append(records, page_result)
    /\ spc' = "loop"
    /\ UNCHANGED served
    /\ UNCHANGED <<session, event_links, link_i, page, event_data, date_found,
                   parsed, page_result, events, requests, slog, clock>>
    /\ UNCHANGED <<dateVars, cleanVars, linkVars, storeVars, sessionVars>>

ExtractNext ==
    \/ FetchServed
    \/ ExtractTitle
    \/ ExtractDate
    \/ ExtractImage
    \/ ExtractDescription
    \/ Deliver

(***************************************************************************)
(* The events table: main (src/main.py) and extract_events                 *)
(* (src/web_app.py) on DatabaseManager (src/src/database.py).  Each        *)
(* statement of a DatabaseManager method is one transaction; runs          *)
(* interleave between them.                                                *)
(***************************************************************************)
MaxScraped == 2

Titles == {"Fiesta de la Primavera", "Carnaval 2026"}

\* the lists scrape_events can return: records, here their titles
ScrapedLists == UNION {[1..n -> Titles] : n \in 1..MaxScraped}

\* two runs of the pipeline and one extraction from the dashboard
Runs == {"main_1", "main_2", "extract_1"}

IsMain(r) == r \in {"main_1", "main_2"}

StoreStart(eventos) ==
    /\ table = <<>>
    /\ runs = [r \in Runs |-> [eventos |-> eventos, i |-> 1, pc |-> "exists",
                                 event_id |-> 0]]
    /\ created = <<>>
    /\ published = <<>>

\* evento['title'] of the record the run is at
TitleOf(r) == runs[r].eventos[runs[r].i]

\* SELECT id FROM events WHERE title = ?
Stored(title) == \E k \in 1..Len(table) : table[k].title = title

\* the run goes to its next record
NextEvento(r) == [runs EXCEPT ![r].i = @ + 1, ![r].pc = "exists"]

\* `if not db.event_exists(title)`: the SELECT, or False on sqlite3.Error
EventExists(r) ==
    /\ runs[r].pc = "exists"
    /\ runs[r].i <= Len(runs[r].eventos)
    /\ \E exists \in {Stored(TitleOf(r)), FALSE} :
           runs' = IF exists THEN NextEvento(r) ELSE [runs EXCEPT ![r].pc = "save"]
    /\ UNCHANGED <<table, created, published>>
    /\ UNCHANGED notStore

\* the INSERT on a table without UNIQUE on title: never an IntegrityError
IntegrityErrorNever(title) == FALSE

\* the INSERT raises IntegrityError: title TEXT NOT NULL UNIQUE
IntegrityError(title) == Stored(title)

\* db.save_event(evento): the INSERT.  On IntegrityError main logs and goes
\* to the next record, extract_events answers with the error
SaveEvent(r) ==
    /\ runs[r].pc = "save"
    /\ IF IntegrityError(TitleOf(r))
       THEN /\ runs' = IF IsMain(r) THEN NextEvento(r)
                        ELSE [runs EXCEPT ![r].pc = "done"]
            /\ UNCHANGED table
       ELSE /\ table' = Append(table, [id |-> Len(table) + 1, title |-> TitleOf(r),
                                        by |-> r, post_generated |-> FALSE,
                                        instagram_posted |-> FALSE])
            /\ runs' = IF IsMain(r)
                        THEN [runs EXCEPT ![r].pc = "post", ![r].event_id = Len(table) + 1]
                        ELSE NextEvento(r)
    /\ UNCHANGED <<created, published>>
    /\ UNCHANGED notStore

\* main: create_post and update_event_post_path; an exception of create_post
\* ends the work on the record
CreatePost(r) ==
    /\ runs[r].pc = "post"
    /\ created' = Append(created, <<r, TitleOf(r)>>)
    /\ \E raised \in BOOLEAN :
           IF raised
           THEN /\ runs' = NextEvento(r)
                /\ UNCHANGED table
           ELSE /\ table' = [table EXCEPT ![runs[r].event_id].post_generated = TRUE]
                /\ \E is_configured \in BOOLEAN :
                       runs' = IF is_configured THEN [runs EXCEPT ![r].pc = "publish"]
                               ELSE NextEvento(r)
    /\ UNCHANGED published
    /\ UNCHANGED notStore

\* main: publish_post and, if it gave a post id, mark_instagram_posted
PublishPost(r) ==
    /\ runs[r].pc = "publish"
    /\ published' = Append(published, <<r, TitleOf(r)>>)
    /\ \E post_id \in BOOLEAN :
           table' = IF post_id
                    THEN [table EXCEPT ![runs[r].event_id].instagram_posted = TRUE]
                    ELSE table
    /\ runs' = NextEvento(r)
    /\ UNCHANGED created
    /\ UNCHANGED notStore

\* the for loop over the records is over
RunEnd(r) ==
    /\ runs[r].pc = "exists"
    /\ runs[r].i > Len(runs[r].eventos)
    /\ runs' = [runs EXCEPT ![r].pc = "done"]
    /\ UNCHANGED <<table, created, published>>
    /\ UNCHANGED notStore

StoreNext ==
    \/ \E r \in Runs : EventExists(r)
    \/ \E r \in Runs : SaveEvent(r)
    \/ \E r \in {r \in Runs : IsMain(r)} : CreatePost(r)
    \/ \E r \in {r \in Runs : IsMain(r)} : PublishPost(r)
    \/ \E r \in Runs : RunEnd(r)

(***************************************************************************)
(* The dashboard (src/web_app.py) beside the pipeline: publish_post and    *)
(* create_manual_event on the same events table.  A request that answers   *)
(* with an error before it changes anything is left out.                   *)
(***************************************************************************)
MaxPublishRequests == 1

\* the calls of publish_post made by the dashboard route so far
DashboardPublishes ==
    Cardinality({p \in 1..Len(published) : published[p][1] = "dashboard"})

\* /api/publish_post/<event_id>: the event exists, has a post and Instagram is
\* configured; the post is published and, if that gave a post id, the row is
\* marked.  instagram_posted is not read
PublishFromDashboard ==
    /\ DashboardPublishes < MaxPublishRequests
    /\ \E event_id \in 1..Len(table) :
           /\ table[event_id].post_generated
           /\ published' = Append(published, <<"dashboard", table[event_id].title>>)
           /\ \E post_id \in BOOLEAN :
                  table' = IF post_id
                           THEN [table EXCEPT ![event_id].instagram_posted = TRUE]
                           ELSE table
    /\ UNCHANGED <<runs, created>>
    /\ UNCHANGED notStore

\* /api/create_manual_event: the row is inserted (an IntegrityError answers
\* with the error), the post is generated if asked for, and published if
\* asked for and generated
CreateManualEvent ==
    /\ \E title \in Titles, generate \in BOOLEAN, publish \in BOOLEAN, post_id \in BOOLEAN :
           /\ ~IntegrityError(title)
           /\ table' = Append(table, [id |-> Len(table) + 1, title |-> title,
                                      by |-> "manual", post_generated |-> generate,
                                      instagram_posted |-> generate /\ publish /\ post_id])
           /\ created' = IF generate THEN Append(created, <<"manual", title>>)
                         ELSE created
           /\ published' = IF generate /\ publish
                           THEN Append(published, <<"manual", title>>)
                           ELSE published
    /\ UNCHANGED runs
    /\ UNCHANGED notStore

PublishNext ==
    \/ \E r \in Runs : EventExists(r)
    \/ \E r \in Runs : SaveEvent(r)
    \/ \E r \in {r \in Runs : IsMain(r)} : CreatePost(r)
    \/ \E r \in {r \in Runs : IsMain(r)} : PublishPost(r)
    \/ \E r \in Runs : RunEnd(r)
    \/ PublishFromDashboard
    \/ CreateManualEvent

(***************************************************************************)
(* The sessions of one EventScraper.  self.session is an attribute of the  *)
(* instance; each call of scrape_events opens a session of its own, binds  *)
(* it to the local name session and stores it in self.session.  The calls  *)
(* are tasks of one event loop: a task runs from one await to the next,    *)
(* and between two awaits of a task the other task may run.                *)
(***************************************************************************)
MaxCandidates == 2

\* the calls of scrape_events on the instance
Tasks == {"task_1", "task_2"}

\* the sessions the instance opens: the one of __aenter__, one per call
SessionIds == {"aenter"} \cup Tasks

SessionStart(with) ==
    /\ self_session = "None"
    /\ sessions = [s \in SessionIds |-> "unopened"]
    /\ tasks = [t \in Tasks |-> [pc |-> "idle", left |-> 0]]
    /\ cm = with
    /\ fetches = {}

\* a request: the task that issues it, what it requests, the session it is
\* issued on and whether that session is open at that moment
Fetch(t, kind, on) ==
    [task |-> t, kind |-> kind, on |-> on, open |-> sessions[on] = "open"]

\* __aenter__: self.session = aiohttp.ClientSession()
AEnter ==
    /\ cm = "before"
    /\ sessions' = [sessions EXCEPT !["aenter"] = "open"]
    /\ self_session' = "aenter"
    /\ cm' = "inside"
    /\ UNCHANGED <<tasks, fetches>>
    /\ UNCHANGED notSessions

\* scrape_events is called: `async with aiohttp.ClientSession(...) as session:`
\* and `self.session = session`
OpenSession(t) ==
    /\ cm \in {"none", "inside"}
    /\ tasks[t].pc = "idle"
    /\ sessions' = [sessions EXCEPT ![t] = "open"]
    /\ self_session' = t
    /\ tasks' = [tasks EXCEPT ![t].pc = "listing"]
    /\ UNCHANGED <<cm, fetches>>
    /\ UNCHANGED notSessions

\* session.get(self.events_url): the listing is requested on the local
\* session; on a failure the call leaves the block, which closes the session
GetListing(t) ==
    /\ tasks[t].pc = "listing"
    /\ fetches' = fetches \cup {Fetch(t, "listing", t)}
    /\ \/ \E n \in 0..MaxCandidates :
              /\ tasks' = [tasks EXCEPT ![t] = [pc |-> "loop", left |-> n]]
              /\ UNCHANGED sessions
       \/ /\ tasks' = [tasks EXCEPT ![t].pc = "returned"]
          /\ sessions' = [sessions EXCEPT ![t] = "closed"]
    /\ UNCHANGED <<self_session, cm>>
    /\ UNCHANGED notSessions

\* _scrape_individual_event: self.session.get(event_url).  On a closed
\* session the request raises, the page gives None; else the page has an
\* image to download, has none, or fails
GetPage(t) ==
    /\ tasks[t].pc = "loop"
    /\ tasks[t].left > 0
    /\ fetches' = fetches \cup {Fetch(t, "page", self_session)}
    /\ IF sessions[self_session] # "open"
       THEN tasks' = [tasks EXCEPT ![t].left = @ - 1]
       ELSE \/ tasks' = [tasks EXCEPT ![t].pc = "image"]
            \/ tasks' = [tasks EXCEPT ![t].left = @ - 1]
    /\ UNCHANGED <<self_session, sessions, cm>>
    /\ UNCHANGED notSessions

\* _download_image: self.session.get(image_url); the record is returned
DownloadImage(t) ==
    /\ tasks[t].pc = "image"
    /\ fetches' = fetches \cup {Fetch(t, "image", self_session)}
    /\ tasks' = [tasks EXCEPT ![t] = [pc |-> "loop", left |-> @.left - 1]]
    /\ UNCHANGED <<self_session, sessions, cm>>
    /\ UNCHANGED notSessions

\* the for loop is over: the block is left, its session is closed
ReturnFromRun(t) ==
    /\ tasks[t].pc = "loop"
    /\ tasks[t].left = 0
    /\ sessions' = [sessions EXCEPT ![t] = "closed"]
    /\ tasks' = [tasks EXCEPT ![t].pc = "returned"]
    /\ UNCHANGED <<self_session, cm, fetches>>
    /\ UNCHANGED notSessions

\* __aexit__, when the calls made inside the block have returned:
\* `if self.session: await self.session.close()`
AExit ==
    /\ cm = "inside"
    /\ \A t \in Tasks : tasks[t].pc \in {"idle", "returned"}
    /\ sessions' = IF self_session # "None"
                   THEN [sessions EXCEPT ![self_session] = "closed"]
                   ELSE sessions
    /\ cm' = "exited"
    /\ UNCHANGED <<self_session, tasks, fetches>>
    /\ UNCHANGED notSessions

SessionsNext ==
    \/ AEnter
    \/ \E t \in Tasks : OpenSession(t)
    \/ \E t \in Tasks : GetListing(t)
    \/ \E t \in Tasks : GetPage(t)
    \/ \E t \in Tasks : DownloadImage(t)
    \/ \E t \in Tasks : ReturnFromRun(t)
    \/ AExit

(***************************************************************************)
(* Specifications                                                          *)
(***************************************************************************)
\* a run of scrape_events
ScrapeInit ==
    /\ ScrapeStart
    /\ DateStart("")
    /\ CleanStart("")
    /\ LinkStart(<<>>)
    /\ ExtractStart(<<>>)
    /\ StoreStart(<<>>)
    /\ SessionStart("none")

SpecScrape == ScrapeInit /\ [][ScrapeNext]_vars

\* _clean_description on each description
CleanInit ==
    /\ \E d \in Descriptions : CleanStart(d)
    /\ DateStart("")
    /\ ScrapeStart
    /\ LinkStart(<<>>)
    /\ ExtractStart(<<>>)
    /\ StoreStart(<<>>)
    /\ SessionStart("none")

SpecClean == CleanInit /\ [][CleanNext]_vars

\* _parse_date_from_text on each text
DateInit ==
    /\ \E text \in DateTexts : DateStart(text)
    /\ CleanStart("")
    /\ ScrapeStart
    /\ LinkStart(<<>>)
    /\ ExtractStart(<<>>)
    /\ StoreStart(<<>>)
    /\ SessionStart("none")

SpecDate == DateInit /\ [][DateNext]_vars

\* link discovery on each listing
LinksInit ==
    /\ \E doc \in LinkListings : LinkStart(doc)
    /\ DateStart("")
    /\ CleanStart("")
    /\ ScrapeStart
    /\ ExtractStart(<<>>)
    /\ StoreStart(<<>>)
    /\ SessionStart("none")

SpecLinks == LinksInit /\ [][LinksNext]_vars

\* two calls of _scrape_individual_event for the one candidate of a run, on
\* each document
ExtractInit ==
    /\ \E d \in 1..Len(PageDocs) : ExtractStart(PageDocs[d])
    /\ \E l \in {l \in Listings : Len(DiscoverLinks(l)) = 1} :
           event_links = DiscoverLinks(l)
    /\ spc = "loop"
    /\ session = "open"
    /\ link_i = 1
    /\ page = <<>>
    /\ event_data = EmptyDict
    /\ date_found = FALSE
    /\ parsed = <<>>
    /\ page_result = None
    /\ events = <<>>
    /\ requests = <<events_url>>
    /\ slog = <<>>
    /\ clock = 0
    /\ DateStart("")
    /\ CleanStart("")
    /\ LinkStart(<<>>)
    /\ StoreStart(<<>>)
    /\ SessionStart("none")

SpecExtract == ExtractInit /\ [][ExtractNext]_vars

\* the three runs, each with the list its scrape_events returned, on an
\* empty table
StoreInit ==
    /\ \E eventos \in ScrapedLists : StoreStart(eventos)
    /\ DateStart("")
    /\ CleanStart("")
    /\ ScrapeStart
    /\ LinkStart(<<>>)
    /\ ExtractStart(<<>>)
    /\ SessionStart("none")

SpecStore == StoreInit /\ [][StoreNext]_vars

\* one run of main with the list its scrape_events returned, the other runs
\* with an empty list, and the dashboard, on an empty table
PublishInit ==
    /\ \E eventos \in ScrapedLists :
           runs = [r \in Runs |->
                      [eventos |-> IF r = "main_1" THEN eventos ELSE <<>>,
                       i |-> 1, pc |-> "exists", event_id |-> 0]]
    /\ table = <<>>
    /\ created = <<>>
    /\ published = <<>>
    /\ DateStart("")
    /\ CleanStart("")
    /\ ScrapeStart
    /\ LinkStart(<<>>)
    /\ ExtractStart(<<>>)
    /\ SessionStart("none")

SpecPublish == PublishInit /\ [][PublishNext]_vars

\* two calls of scrape_events on one instance, inside an
\* `async with EventScraper()` block or without one
SessionsInit ==
    /\ \E with \in {"none", "before"} : SessionStart(with)
    /\ DateStart("")
    /\ CleanStart("")
    /\ ScrapeStart
    /\ LinkStart(<<>>)
    /\ ExtractStart(<<>>)
    /\ StoreStart(<<>>)

SpecSessions == SessionsInit /\ [][SessionsNext]_vars

(***************************************************************************)
(* Properties of the date parser (SpecDate)                                *)
(***************************************************************************)
Aug6 == [event_date |-> [year |-> 2025, month |-> 8, day |-> 6],
         formatted_date |-> "06/08/2025"]

SupportedTexts ==
    {"6 de agosto de 2025", "06/08/2025", "06-08-2025", "2025-08-06",
     "6 agosto 2025", "agosto 6, 2025", "06.08.2025"}

IsDateResult(r) ==
    /\ DOMAIN r = {"event_date", "formatted_date"}
    /\ Datetime(r.event_date.year, r.event_date.month, r.event_date.day).exc = "none"

Logged(kind) == \E i \in 1..Len(dlog) : dlog[i] = kind

\* C1: each of the seven supported date texts parses to event_date 2025-08-06
\* and formatted_date "06/08/2025".
C1_SupportedFormats ==
    (dpc = "done" /\ date_text \in SupportedTexts) => dresult = Aug6

C1_Witness ==
    /\ dpc = "done"
    /\ date_text = "agosto 6, 2025"
    /\ dresult = Aug6
    /\ SupportedTexts \subseteq DateTexts

\* C2: for every text the parser ends, returning a date or None, and no
\* exception leaves it, whatever was raised inside.
C2_NeverRaises ==
    /\ descaped = "none"
    /\ dpc = "done" => (dresult = None \/ IsDateResult(dresult))
    /\ dpc # "done" =>
          \/ dpc = "loop" /\ pidx \in 1..(Len(date_patterns) + 1)
          \/ dpc \in {"fallback", "return"}
    /\ Len(dlog) <= Len(date_patterns) + 1

C2_Witness ==
    /\ dpc = "done"
    /\ dresult = None
    /\ descaped = "none"
    /\ Logged("UnboundLocalError")

C2_WitnessOverflow ==
    /\ dpc = "done"
    /\ dresult = None
    /\ Logged("fallback")
    /\ NumericFallback(date_text).exc = "OverflowError"

\* C3 as claimed: a pattern whose captured numbers are no calendar date is
\* skipped, the next pattern is tried and, unless a later pattern gives a date,
\* the numeric fallback is tried.
C3_InvalidSkippedThenFallback ==
    dpc = "done" =>
        \A i \in 1..Len(dlog) :
            dlog[i] = "ValueError" =>
                /\ i < Len(date_patterns) => Len(dlog) > i
                /\ Logged("none") \/ Logged("fallback")

MonthNamePhrases ==
    {<<"6 de agosto de 2025", [year |-> 2025, month |-> 8, day |-> 6]>>,
     <<"6 agosto 2025", [year |-> 2025, month |-> 8, day |-> 6]>>,
     <<"agosto 6, 2025", [year |-> 2025, month |-> 8, day |-> 6]>>,
     <<"AGO 29, 2024", [year |-> 2024, month |-> 8, day |-> 29]>>}

NumericPhrases ==
    {<<"06/08/2025", [year |-> 2025, month |-> 8, day |-> 6]>>,
     <<"06-08-2025", [year |-> 2025, month |-> 8, day |-> 6]>>,
     <<"2025-08-06", [year |-> 2025, month |-> 8, day |-> 6]>>,
     <<"06.08.2025", [year |-> 2025, month |-> 8, day |-> 6]>>,
     <<"7/9/2026", [year |-> 2026, month |-> 9, day |-> 7]>>}

BothOrders(a, b) == {a \o " " \o b, b \o " " \o a}

C6_NeverEmpty ==
    cpc # "start" =>
        /\ cleaned1 # ""
        /\ cleaned1 = Placeholder \/ Len(cleaned1) >= 30

\* C7 as claimed: sanitizing the result of the sanitizer gives that result back.
C7_Idempotent ==
    cpc = "twice" => cleaned2 = cleaned1

\* a text made only of address, phone and e-mail phrases of the unwanted list,
\* each at most once, in any order, separated by whitespace
OnlyBoilerplate(d) == d \in ContactTexts

\* C8: a description made only of boilerplate phrases is sanitized to the
\* placeholder sentence.
C8_BoilerplateOnly ==
    (cpc # "start" /\ OnlyBoilerplate(description)) => cleaned1 = Placeholder

C8_Witness ==
    /\ cpc = "cleaned"
    /\ description = "Juan Carlos Gómez 32\n(+598) 473 2 98 98\ninfo@salto.gub.uy"
    /\ OnlyBoilerplate(description)
    /\ \A i \in 1..Len(ContactPhrases) : InSeq(ContactPhrases[i], unwanted_phrases)
    /\ cleaned1 = Placeholder

(***************************************************************************)
(* Properties of a scraping run (SpecScrape)                               *)
(***************************************************************************)
\* text is the DD/MM/YYYY rendering of date: two digits, "/", two digits, "/"
\* and the year, of four digits from the year 1000 on
RendersDate(text, date) ==
    LET parts == Split(text, "/")
    IN  /\ Len(parts) = 3
        /\ \A i \in 1..3 : IsDigits(parts[i])
        /\ Len(parts[1]) = 2
        /\ Len(parts[2]) = 2
        /\ date.year >= 1000 => Len(parts[3]) = 4
        /\ ToInt(parts[1]) = date.day
        /\ ToInt(parts[2]) = date.month
        /\ ToInt(parts[3]) = date.year

DateFieldsAgree(r) ==
    /\ Has(r, "formatted_date") <=> Has(r, "event_date")
    /\ Has(r, "event_date") => RendersDate(r.formatted_date, r.event_date)

\* the date fields of r are the two fields of the parse of the last text handed
\* to the date parser, every text before it having failed; without a text that
\* parsed r has neither field
FromOneParse(r) ==
    IF date_found
    THEN /\ Len(parsed) > 0
         /\ Has(r, "event_date")
         /\ Has(r, "formatted_date")
         /\ ParseDateFromText(parsed[Len(parsed)])
                = [event_date |-> r.event_date, formatted_date |-> r.formatted_date]
         /\ \A k \in 1..(Len(parsed) - 1) : ParseDateFromText(parsed[k]) = None
    ELSE ~Has(r, "event_date") /\ ~Has(r, "formatted_date")

C9_TitleNonEmpty ==
    \A i \in 1..Len(events) : events[i].title # ""

\* C10: a page on which no selector of the title chain finds an element gives
\* no record, and the loop goes on: every candidate before the loop index has
\* been requested and has ended with one outcome, in list order, the run
\* returns only after the last candidate, and events holds one record per
\* extracted page.
C10_NoTitleSkipped ==
    (spc \in {"loop", "returned"} /\ link_i >= 1) =>
        /\ Len(slog) = link_i - 1
        /\ spc = "returned" => link_i = Len(event_links) + 1
        /\ \A j \in 1..(link_i - 1) :
               /\ slog[j][2] = event_links[j]
               /\ InSeq(event_links[j], requests)
        /\ Len(events) = Cardinality({j \in 1..Len(slog) : slog[j][1] = "extracted"})
        /\ \A j \in 1..Len(slog) :
               slog[j][1] = "no_title" =>
                   \A i \in 1..Len(events) : events[i].link # slog[j][2]

C10_Witness ==
    /\ spc = "returned"
    /\ Len(event_links) = 2
    /\ slog = <<<<"no_title", event_links[1]>>, <<"extracted", event_links[2]>>>>
    /\ Len(events) = 1
    /\ events[1].link = event_links[2]

(***************************************************************************)
(* Body blocks (SpecScrape)                                                *)
(***************************************************************************)
\* the texts that appear in the second or a later .field--name-body block of
\* the document and in no other element
OnlyInLaterBlocks(elems) ==
    LET body  == {j \in 1..Len(elems) : ".field--name-body" \in elems[j].sels}
        later == {j \in body : \E k \in body : k < j}
    IN  {elems[j].text : j \in later}
            \ ({""} \cup {elems[j].text : j \in (1..Len(elems)) \ later})

\* C11 as claimed: on a page with several body blocks, a text that appears
\* only in the second or a later block is in no text handed to the date
\* parser and not in the description.
C11_OnlyFirstBodyBlock ==
    \A t \in OnlyInLaterBlocks(page) :
        /\ \A i \in 1..Len(parsed) : ~Contains(parsed[i], t)
        /\ Has(event_data, "description") => ~Contains(event_data.description, t)

\* the part of C11 that holds: a later block is in neither zone 1 nor the
\* description
C11_FirstZoneAndDescription ==
    \A t \in OnlyInLaterBlocks(page) :
        /\ Len(parsed) > 0 => ~Contains(parsed[1], t)
        /\ Has(event_data, "description") => ~Contains(event_data.description, t)

(***************************************************************************)
(* Properties of link discovery (SpecLinks)                                *)
(***************************************************************************)
\* the block scans give the list that a run of scrape_events works on
DiscoveryAgrees == lscan = "done" => found = DiscoverLinks(listing)

\* the document has no <article> and no <div> of class evento
NoArticleLike(doc) == \A i \in 1..Len(doc) : doc[i].tag = "a"

\* the href holds the keyword, in any letter case
HasKeyword(href) == Contains(Lower(href), "evento")

\* the href holds the keyword or the content-node path
Marked(href) == HasKeyword(href) \/ Contains(href, "/node/")

NoDuplicates(q) == \A i, j \in 1..Len(q) : i < j => q[i] # q[j]

IsAbsolute(url) == StartsWith(url, "http://") \/ StartsWith(url, "https://")

ToSet(q) == {q[i] : i \in 1..Len(q)}

\* C12 as claimed: for a listing without article-like block and with
\* hyperlinks whose href contains "evento", discovery returns exactly those
\* hyperlinks, absolute, each at most once, and never the listing URL.
C12_FallbackExactlyEvento ==
    (/\ lscan = "done"
     /\ NoArticleLike(listing)
     /\ \E i \in 1..Len(listing) : HasKeyword(listing[i].href)) =>
        /\ ToSet(found) = {Urljoin(base_url, listing[i].href) :
                              i \in {i \in 1..Len(listing) : HasKeyword(listing[i].href)}}
                          \ {events_url}
        /\ NoDuplicates(found)
        /\ \A i \in 1..Len(found) : IsAbsolute(found[i])

\* C12, amended: for a listing without article-like block the article scan
\* finds nothing and the fallback scan returns exactly the hyperlinks whose
\* href contains "evento" (in any letter case) or "/node/", absolute, each at
\* most once, and never the listing URL.
C12_FallbackScan ==
    NoArticleLike(listing) =>
        /\ lscan = "articles" => found = <<>>
        /\ lscan = "done" =>
              /\ ToSet(found) = {Urljoin(base_url, listing[i].href) :
                                    i \in {i \in 1..Len(listing) : Marked(listing[i].href)}}
                                \ {events_url}
              /\ NoDuplicates(found)
              /\ \A i \in 1..Len(found) : IsAbsolute(found[i])

C12_Witness ==
    /\ lscan = "done"
    /\ listing = <<Block("a", TRUE, "/Evento/feria"),
                   Block("a", TRUE, "https://www.salto.gub.uy/eventos"),
                   Block("a", TRUE, "/node/1")>>
    /\ found = <<"https://www.salto.gub.uy/Evento/feria",
                 "https://www.salto.gub.uy/node/1">>

\* the blocks the scan in use reads its links from: the article-like blocks
\* if one of them holds a link, else every block
Sources(doc) ==
    IF lscan = "articles"
           \/ (lscan = "done" /\ \E i \in 1..Len(Articles(doc)) :
                                    Articles(doc)[i].has_href /\ Articles(doc)[i].href # "")
    THEN Articles(doc)
    ELSE doc

\* the places of the URL among the links of the blocks
PlacesOf(url, blocks) ==
    {k \in 1..Len(blocks) : /\ blocks[k].has_href
                            /\ blocks[k].href # ""
                            /\ Urljoin(base_url, blocks[k].href) = url}

Succeeded == {j \in 1..Len(slog) : slog[j][1] = "extracted"}

\* C14: whatever each page gives (status other than 200, timeout, transport
\* exception, unreadable document, no title), no exception leaves
\* scrape_events, every candidate gets its one outcome, the run returns after
\* the last candidate, and events holds exactly the records of the pages
\* that succeeded, in the order of the candidates.
C14_FailuresAreLocal ==
    /\ spc # "escaped"
    /\ (spc \in {"loop", "returned"} /\ link_i >= 1) =>
           /\ Len(slog) = link_i - 1
           /\ spc = "returned" => link_i = Len(event_links) + 1
           /\ \A j \in 1..Len(slog) : slog[j][2] = event_links[j]
           /\ Len(events) = Cardinality(Succeeded)
           /\ \A j \in Succeeded :
                  events[Cardinality({k \in Succeeded : k <= j})].link = event_links[j]

C14_Witness ==
    /\ spc = "returned"
    /\ Len(event_links) = 2
    /\ slog[1][1] = "raised"
    /\ slog[2][1] = "extracted"
    /\ Len(events) = 1
    /\ events[1].link = event_links[2]
    /\ events[1].title = "Fiesta de la Primavera"

\* the number of requests of the URL after the request of the listing
PageRequests(url) == Cardinality({k \in 2..Len(requests) : requests[k] = url})

C16_NoImageFieldAfterFailure ==
    \A i \in 1..Len(events) :
        Has(events[i], "image_url") => Has(events[i], "image_path")

\* the part of C16 that holds: the failed download never costs the record,
\* and never leaves an image_path
C16_RecordKept ==
    /\ spc = "description" => Has(event_data, "title")
    /\ \A i \in 1..Len(events) :
           Has(events[i], "image_path") => Has(events[i], "image_url")

(***************************************************************************)
(* Extraction is a function of the document (SpecExtract)                  *)
(***************************************************************************)
DocumentFields ==
    {"title", "event_date", "formatted_date", "image_url", "description", "link"}

\* two results of _scrape_individual_event agree on the fields of the document
SameExtraction(r1, r2) ==
    IF r1 = None \/ r2 = None THEN r1 = r2
    ELSE \A f \in DocumentFields :
             /\ Has(r1, f) <=> Has(r2, f)
             /\ Has(r1, f) => r1[f] = r2[f]

\* C17: two extractions of one document from one URL give records with equal
\* title, event_date, formatted_date, image_url, description and link (or no
\* record both times), whatever the image downloads do and whenever they run.
C17_SameDocumentSameRecord ==
    Len(records) = 2 => SameExtraction(records[1], records[2])

C17_Witness ==
    /\ Len(records) = 2
    /\ records[1] # None
    /\ records[1].title = "Fiesta de la Primavera"
    /\ records[1].formatted_date = "06/08/2025"
    /\ Has(records[1], "image_path")
    /\ ~Has(records[2], "image_path")
    /\ records[1].scraped_at # records[2].scraped_at

(***************************************************************************)
(* Properties of the events table (SpecStore)                              *)
(***************************************************************************)
\* C18: whatever the interleaving of the pipeline runs and the dashboard
\* extraction, the events table never holds two rows of one title, and main
\* generates and publishes a post only for a record that this run of main
\* stored itself, so never for a title that was stored already and at most
\* once per title.
C18_OneRowPerTitle ==
    /\ \A k, l \in 1..Len(table) : k < l => table[k].title # table[l].title
    /\ \A c \in 1..Len(created) :
           /\ \E k \in 1..Len(table) :
                  table[k].title = created[c][2] /\ table[k].by = created[c][1]
           /\ \A d \in 1..Len(created) : c < d => created[c][2] # created[d][2]
    /\ \A p \in 1..Len(published) :
           /\ \E c \in 1..Len(created) : created[c] = published[p]
           /\ \A q \in 1..Len(published) : p < q => published[p][2] # published[q][2]

\* both runs of main found the title absent, one of them stored it, the
\* other one's INSERT was refused and it generated no post
C18_Witness ==
    /\ \A r \in Runs : runs[r].pc = "done"
    /\ runs["main_1"].eventos = <<"Carnaval 2026", "Carnaval 2026">>
    /\ Len(table) = 1
    /\ table[1].by = "main_2"
    /\ created = <<<<"main_2", "Carnaval 2026">>>>
    /\ published = created

(***************************************************************************)
(* The order of the date zones (SpecScrape)                                *)
(***************************************************************************)
\* the selectors of the date zones in the order of the source; after them
\* comes the text of the whole page
ZoneOrder ==
    <<".field--name-body", "header > div", "header div", ".date", ".fecha",
      ".event-date", ".field-name-field-date", ".field-type-datetime", "time",
      ".datetime">>

\* the texts of the zones the document has, in that order
ZonesInOrder(elems) ==
    LET present == SelectSeq(ZoneOrder, LAMBDA sel : Found(elems, sel))
    IN  [k \in 1..Len(present) |-> Strip(SelectOne(elems, present[k]).text)]
            \o <<GetText(elems)>>

\* C19: the texts handed to the date parser for a page are the zones of the
\* page in the order first body block, header sub-element, alternative
\* selectors in list order, whole page, up to the first one that parses:
\* every zone before the last one handed over failed to parse, the date of
\* the record is the parse of that last one, and without a zone that parses
\* every zone was handed over and the record has no date.
C19_ZonesInPriorityOrder ==
    spc \in {"image", "description"} =>
        \A z \in {ZonesInOrder(page)} :
            /\ Len(parsed) >= 1
            /\ Len(parsed) <= Len(z)
            /\ \A k \in 1..Len(parsed) : parsed[k] = z[k]
            /\ \A k \in 1..(Len(parsed) - 1) : ParseDateFromText(parsed[k]) = None
            /\ \A info \in {ParseDateFromText(parsed[Len(parsed)])} :
                   IF date_found
                   THEN /\ info # None
                        /\ event_data.event_date = info.event_date
                        /\ event_data.formatted_date = info.formatted_date
                   ELSE /\ info = None
                        /\ Len(parsed) = Len(z)
                        /\ ~Has(event_data, "event_date")

\* a page whose body block failed to parse took the date of its header, and
\* a page with a date in the body block and another in the header takes the
\* one of the body block and looks no further
C19_Witness ==
    /\ Len(events) = 1
    /\ events[1].title = ""
    /\ events[1].formatted_date = "07/09/2026"
    /\ spc = "image"
    /\ page = PageDocs[1]
    /\ parsed = <<"Gran festival de música en la plaza el 6 de agosto de 2025.">>
    /\ event_data.formatted_date = "06/08/2025"

(***************************************************************************)
(* A word outside the Month Lexicon (SpecDate)                             *)
(***************************************************************************)
\* C20 as claimed: when a month-name pattern matches and _parse_month does
\* not know the captured word, the pattern is skipped like an invalid date:
\* the next pattern is tried and, unless a later pattern gives a date, the
\* numeric fallback is tried.
C20_UnknownMonthSkipped ==
    dpc = "done" =>
        \A i \in 1..Len(dlog) :
            dlog[i] = "UnboundLocalError" =>
                /\ i < Len(date_patterns) => Len(dlog) > i
                /\ dlog[Len(dlog)] \in {"none", "fallback"}

\* what the code does: the unknown word ends the parse with no result, no
\* pattern after it and no fallback is tried
C20_UnknownMonthAborts ==
    dpc = "done" =>
        \A i \in 1..Len(dlog) :
            dlog[i] = "UnboundLocalError" => i = Len(dlog) /\ dresult = None

(***************************************************************************)
(* The sentences of a sanitized text (SpecClean)                           *)
(***************************************************************************)
\* the sentences of a text: its pieces between periods, trimmed, the empty
\* ones (such as the one after the final period) left out
SentencesOf(text) ==
    LET lines == Split(text, ".")
    IN  {Strip(lines[i]) : i \in 1..Len(lines)} \ {""}

\* every sentence of the input is rejected by the keep rule
AllRejected(d) ==
    \A line \in SentencesOf(Strip(CollapseWhitespace(RemovePhrases(d, 1)))) :
        ~KeepLine(line)

\* C21 as claimed: a result of _clean_description other than the placeholder
\* holds only sentences that pass the keep rule (longer than 15 characters, no
\* "@", no "gub.uy", no "juan carlos gómez", no leading phone digits), also
\* when the rule rejected every sentence of the input.
C21_OnlyKeptSentences ==
    (cpc # "start" /\ cleaned1 # Placeholder) =>
        \A line \in SentencesOf(cleaned1) : KeepLine(line)

\* what the code guarantees: when at least one sentence of the input passes
\* the rule, the result holds only sentences that pass it
C21_KeptWhenSomeSurvive ==
    (cpc # "start" /\ cleaned1 # Placeholder /\ ~AllRejected(description)) =>
        \A line \in SentencesOf(cleaned1) : KeepLine(line)

\* when every sentence is rejected and the text has 30 characters or more,
\* the text is returned as it was after the phrase removal
C21_RejectedTextReturned ==
    (cpc # "start" /\ description # "" /\ AllRejected(description)) =>
        LET spaced == Strip(CollapseWhitespace(RemovePhrases(description, 1)))
        IN  cleaned1 = IF Len(spaced) < 30 THEN Placeholder ELSE spaced

(***************************************************************************)
(* The description of a record (SpecScrape)                                *)
(***************************************************************************)
\* the elements of the page a selector matches, in document order
MatchesOf(selector) ==
    {i \in 1..Len(page) : selector \in page[i].sels}

\* the sanitized text of the first element of the page a selector matches
SanitizedFirst(selector) ==
    CleanDescription(Strip(page[Min(MatchesOf(selector))].text))

\* C22: the description of a record is the sanitized text of the first
\* body-content block when the page has one, whatever the looser selectors
\* match; otherwise the sanitized text of the first element of the first
\* selector of the cascade that matches; otherwise the placeholder sentence.
C22_DescriptionSource ==
    (spc = "page_done" /\ page_result # None) =>
        IF MatchesOf(".field--name-body") # {}
        THEN page_result.description = SanitizedFirst(".field--name-body")
        ELSE IF \E k \in 1..Len(description_selectors) :
                    MatchesOf(description_selectors[k]) # {}
        THEN \E k \in 1..Len(description_selectors) :
                 /\ MatchesOf(description_selectors[k]) # {}
                 /\ \A j \in 1..(k - 1) : MatchesOf(description_selectors[j]) = {}
                 /\ page_result.description = SanitizedFirst(description_selectors[k])
        ELSE page_result.description = Placeholder

\* a record of a page with a body block and a paragraph of the cascade whose
\* sanitized texts differ: the description is that of the body block
C22_Witness ==
    /\ spc = "page_done"
    /\ page_result # None
    /\ MatchesOf(".field--name-body") # {}
    /\ MatchesOf(".field p") # {}
    /\ SanitizedFirst(".field p") # SanitizedFirst(".field--name-body")
    /\ page_result.description = SanitizedFirst(".field--name-body")

(***************************************************************************)
(* The numeric fallback (SpecDate)                                         *)
(***************************************************************************)
\* every pattern of the list was tried on the text and none matched
NoPatternMatched ==
    /\ Len(dlog) >= Len(date_patterns)
    /\ \A i \in 1..Len(date_patterns) : dlog[i] = "nomatch"

\* year, month and day are a date of the calendar
IsCalendarDate(y, m, d) ==
    /\ y \in 1..9999
    /\ m \in 1..12
    /\ d \in 1..DaysInMonth(y, m)

\* the date the first three numeric tokens of the text denote: year, month,
\* day when the first has four digits, else day, month, year with a year
\* below 100 increased by 2000; None when there are fewer than three tokens
\* or the values are no date of the calendar
PositionalDate(text) ==
    LET numbers == FindAll(<<El("\\d", 1, -1, 0)>>, text)
    IN  IF Len(numbers) < 3 THEN None
        ELSE LET n1 == PyInt(numbers[1])
                 n2 == PyInt(numbers[2])
                 n3 == PyInt(numbers[3])
                 year_first == Len(numbers[1]) = 4
                 y == IF year_first THEN n1
                      ELSE IF n3 < 100 THEN n3 + 2000 ELSE n3
                 d == IF year_first THEN n3 ELSE n1
             IN  IF TooLarge \notin {n1, n2, n3} /\ IsCalendarDate(y, n2, d)
                 THEN [year |-> y, month |-> n2, day |-> d]
                 ELSE None

\* C23: when no pattern matches, the parser returns the date the first three
\* numeric tokens denote positionally (year first when the first token has
\* four digits, else day first with a two-digit year increased by 2000), and
\* no result when they denote no valid date or there are fewer than three.
C23_NumericFallback ==
    (dpc = "done" /\ NoPatternMatched) =>
        \A expected \in {PositionalDate(date_text)} :
            IF expected = None THEN dresult = None
            ELSE dresult # None /\ dresult.event_date = expected

\* a text no pattern matches whose first token has four digits
C23_Witness ==
    /\ dpc = "done"
    /\ NoPatternMatched
    /\ date_text = "2024: 2 29"
    /\ dresult # None
    /\ dresult.event_date = [year |-> 2024, month |-> 2, day |-> 29]

\* a text no pattern matches read day first, its year increased by 2000
C23_WitnessDayFirst ==
    /\ dpc = "done"
    /\ NoPatternMatched
    /\ date_text = "18hs 1 2 3"
    /\ dresult # None
    /\ dresult.event_date = [year |-> 2002, month |-> 1, day |-> 18]

\* three tokens no pattern matches that are no date: no result
C23_WitnessInvalid ==
    /\ dpc = "done"
    /\ NoPatternMatched
    /\ date_text = "18hs 2024: 2 29"
    /\ dresult = None

(***************************************************************************)
(* One candidate after another (SpecScrape)                                *)
(***************************************************************************)
\* the places of the requests of candidate pages in the requests of the run;
\* the first request is the one of the listing, the others are of images
PagePlaces ==
    {k \in 2..Len(requests) : InSeq(requests[k], event_links)}

\* the place of a URL in the candidate list
CandidateIndex(url) ==
    Min({j \in 1..Len(event_links) : event_links[j] = url})

\* C24: in a run the candidates are processed one after another: the pages are
\* requested in the order of the candidate list, a page is requested only
\* when every candidate before it has ended with its outcome, the request of
\* an image comes right after the request of its page and before the request
\* of the next page, and the records of events follow the order of the
\* candidate list and of their scraped_at times.
C24_OneAfterAnother ==
    link_i >= 1 =>
        /\ \A k \in PagePlaces :
               requests[k] = event_links[Cardinality({p \in PagePlaces : p <= k})]
        /\ Cardinality(PagePlaces) - Len(slog) \in {0, 1}
        /\ Cardinality(PagePlaces) - Len(slog) = 1
               <=> spc \in {"title", "date", "image", "description"}
        /\ \A k \in (2..Len(requests)) \ PagePlaces :
               /\ k - 1 \in PagePlaces
               /\ LET j == Cardinality({p \in PagePlaces : p < k})
                  IN  j <= Len(slog) => slog[j] = <<"extracted", event_links[j]>>
        /\ \A a, b \in 1..Len(events) :
               a < b => /\ CandidateIndex(events[a].link) < CandidateIndex(events[b].link)
                        /\ events[a].scraped_at < events[b].scraped_at

\* a run over two pages with an image each: page, image, page, image, and the
\* two records in the order of the candidates
C24_Witness ==
    /\ spc = "returned"
    /\ Len(event_links) = 2
    /\ Len(requests) = 5
    /\ PagePlaces = {2, 4}
    /\ requests[2] = event_links[1]
    /\ requests[4] = event_links[2]
    /\ Len(events) = 2
    /\ events[1].link = event_links[1]
    /\ events[2].link = event_links[2]
    /\ Has(events[1], "image_url") /\ Has(events[2], "image_url")

(***************************************************************************)
(* The session of a run (SpecScrape)                                       *)
(***************************************************************************)
\* scrape_events has been called and has not returned
Running == spc \notin {"idle", "returned", "escaped"}

\* C25: the session of a run is open from the call of scrape_events until it
\* returns and is closed when it has returned, on every exit path (the end of
\* the loop, a listing status other than 200, an exception on the listing);
\* every request is issued on the open session, none after the close.
C25_SessionScopedToRun ==
    /\ [](/\ Running => session = "open"
          /\ spc \in {"returned", "escaped"} => session = "closed"
          /\ spc = "idle" => session = "none" /\ requests = <<>>)
    /\ [][/\ requests' # requests => session = "open"
          /\ session = "closed" => session' = "closed" /\ requests' = requests]_vars

\* the run returned early on an exception of the listing request
C25_Witness ==
    /\ spc = "returned"
    /\ session = "closed"
    /\ requests = <<events_url>>
    /\ slog = <<<<"listing_raised", events_url>>>>

\* the run returned early on a listing status other than 200
C25_WitnessStatus ==
    /\ spc = "returned"
    /\ session = "closed"
    /\ requests = <<events_url>>
    /\ slog = <<<<"listing_status", events_url>>>>

\* the run returned after the last candidate
C25_WitnessLoopEnd ==
    /\ spc = "returned"
    /\ session = "closed"
    /\ Len(event_links) = 2
    /\ Len(slog) = 2

(***************************************************************************)
(* A valid date after an invalid one (SpecDate)                            *)
(***************************************************************************)
\* the text holds one of the supported texts of 6 August 2025
HoldsValidDate(text) == \E t \in SupportedTexts : Contains(text, t)

\* C26 as claimed: a text that holds a valid date in a supported format
\* parses to a date, also when an earlier part of the text matches the same
\* or a higher-priority pattern with values that are no date.
C26_ValidDateFound ==
    (dpc = "done" /\ HoldsValidDate(date_text)) => dresult # None

\* what the code does: a pattern is searched once, so when its leftmost match
\* is no date the pattern gives nothing, whatever it would match further on
C26_LeftmostMatchOnly ==
    (dpc = "done" /\ date_text = "32/13/2025 06/08/2025") =>
        /\ dlog = <<"nomatch", "ValueError", "nomatch", "ValueError", "nomatch",
                    "nomatch", "nomatch", "nomatch", "fallback">>
        /\ dresult = None

(***************************************************************************)
(* The listing URL among the candidates (SpecLinks)                        *)
(***************************************************************************)
\* C27 as claimed: the listing URL is never put in the candidate list,
\* whether the list is built from the article-like blocks or by the fallback
\* scan of every hyperlink.
C27_ListingNeverCandidate ==
    ~InSeq(events_url, found)

\* the list is being built, or was built, by the fallback scan
ByFallbackScan ==
    \/ lscan = "fallback"
    \/ lscan = "done" /\ ArticleLinks(Articles(listing), <<>>) = <<>>

\* what the code guarantees: the fallback scan leaves the listing URL out;
\* the article scan puts it in when it is the first link of an article
C27_OnlyFallbackExcludes ==
    /\ ByFallbackScan => ~InSeq(events_url, found)
    /\ (lscan = "done" /\ ~ByFallbackScan) =>
           (InSeq(events_url, found)
                <=> \E i \in 1..Len(Articles(listing)) :
                        /\ Articles(listing)[i].has_href
                        /\ Articles(listing)[i].href = events_url)

(***************************************************************************)
(* Overlapping calls of scrape_events on one instance (SpecSessions)       *)
(***************************************************************************)
\* the task is between the opening of its session and its return
InRun(t) == tasks[t].pc \in {"listing", "loop", "image"}

\* C28 as claimed: with two calls of scrape_events on one instance that
\* overlap, every page request and image download of a call is issued on the
\* session that call opened, while it is open, and no call that returns
\* closes the session another call is using.
C28_OwnOpenSession ==
    /\ \A f \in fetches :
           f.kind \in {"page", "image"} => f.on = f.task /\ f.open
    /\ \A t \in Tasks :
           (InRun(t) /\ tasks[t].pc # "listing") => sessions[self_session] = "open"

\* what the code guarantees: the listing is requested on the local session of
\* the call, which is open; a call whose requests all come before the other
\* call opens its session uses its own open session
C28_ListingOnOwnSession ==
    /\ \A f \in fetches : f.kind = "listing" => f.on = f.task /\ f.open
    /\ \A t \in Tasks :
           (\A u \in Tasks \ {t} : tasks[u].pc = "idle") =>
               \A f \in fetches : f.on = f.task /\ f.open

(***************************************************************************)
(* scrape_events inside `async with EventScraper()` (SpecSessions)         *)
(***************************************************************************)
\* C29 as claimed: once __aexit__ has returned, every session the scraper
\* opened, the one of __aenter__ and the ones of the calls of scrape_events
\* made inside the block, is closed.
C29_AllClosedAfterExit ==
    cm = "exited" => \A s \in SessionIds : sessions[s] # "open"

\* what the code does: the sessions of the calls are closed by the calls;
\* the session of __aenter__ is closed by __aexit__ only if no call of
\* scrape_events replaced self.session in between
C29_EnterSessionLeaked ==
    cm = "exited" =>
        /\ \A t \in Tasks : sessions[t] # "open"
        /\ sessions["aenter"] = "open" <=> \E t \in Tasks : tasks[t].pc = "returned"

(***************************************************************************)
(* Publishing at most once (SpecPublish)                                   *)
(***************************************************************************)
\* the row of a title
RowOf(title) == CHOOSE k \in 1..Len(table) : table[k].title = title

\* C30 as claimed: whatever the sequence of pipeline runs and dashboard
\* requests, no publish is attempted for a stored event whose
\* instagram_posted flag is already set.
C30_NoPublishWhenPosted ==
    [][\A title \in Titles :
           (/\ Len(published') = Len(published) + 1
            /\ published'[Len(published')][2] = title
            /\ Stored(title))
               => ~table[RowOf(title)].instagram_posted]_vars

\* what the code guarantees: main and create_manual_event publish only an
\* event they stored themselves, and each of them at most once per title; a
\* second publish of an event comes from the dashboard route, or meets a flag
\* the dashboard route set in between
C30_OwnEventOnce ==
    \A p \in 1..Len(published) :
        published[p][1] # "dashboard" =>
            /\ Stored(published[p][2])
            /\ table[RowOf(published[p][2])].by = published[p][1]
            /\ \A q \in 1..Len(published) :
                   (q # p /\ published[q][2] = published[p][2])
                       => published[q][1] = "dashboard"

====
